---- MODULE Spec2Model ----
(***************************************************************************)
(* Model of the svc-telemetry ingest tier: the TTL cache used for packet   *)
(* de-duplication and CPR pairing, and the REST handlers built on it.      *)
(* Time is in milliseconds.  Cache keys are strings built exactly as the   *)
(* code builds them; cache values are byte strings, modelled as sequences  *)
(* of one-character strings.                                               *)
(***************************************************************************)
EXTENDS Integers, Sequences, FiniteSets, TLC

VARIABLES
    now,        \* wall clock, ms
    cache,      \* the Redis key space: key -> [val, exp]
    calls,      \* history of pool-level increment calls, per key
    keyTtl,     \* the ttl each pool-level caller uses for a key
    req,        \* the HTTP requests in order of arrival, in flight or answered
    lists,      \* Redis lists written by GisPool::push (LPUSH), per queue key
    mq,         \* messages accepted by the broker
    stored,     \* rows accepted by svc-storage
    jwt_secret, \* JWT_SECRET, a OnceCell<String>: <<>> until set, then <<secret>>
    logins,     \* the answers /telemetry/login has given, in order
    creds,      \* the cookie and header each /telemetry/netrid request carried
    loop_kind,  \* which batch loop the build runs: gis_batch_loop or Batch::start
    ring,       \* the VecDeque behind the position ring
    ring_lock,  \* holder of the ring's mutex: "free", "batcher" or a producer
    prod,       \* the position of each producer in gis_position_push
    bat,        \* the position and locals of the batch loop
    gis_client, \* the spatial-service client handle: "some" or "none"
    sent,       \* the calls made on the spatial-service client, in order
    pushed,     \* number of records pushed onto the ring so far
    max_message_size_bytes, \* Batch::max_message_size_bytes, from the configuration
    probes,     \* the GET /health requests in order of arrival, in flight or answered
    ready,      \* whether the storage and the gis service answer is_ready with Ok
    wire,       \* the wire values handed to a decoder
    decoded,    \* <<>> until the decoder has run, then <<its result>>
    builder,    \* a CcsdsBuilder in the hands of its caller
    trace       \* the calls made on the builder and their results, in order

ingestVars == <<now, cache, calls, keyTtl, req, lists, mq, stored>>
jwtVars == <<jwt_secret, logins, creds>>
egressVars ==
    <<loop_kind, max_message_size_bytes, ring, ring_lock, prod, bat, gis_client, sent,
      pushed>>
healthVars == <<probes, ready>>
codecVars == <<wire, decoded>>
builderVars == <<builder, trace>>
vars == <<ingestVars, jwtVars, egressVars, healthVars, codecVars, builderVars>>

-----------------------------------------------------------------------------
(* Bounds of the model *)

MaxTime == 11000
MaxCalls == 3
MaxReq == 2

-----------------------------------------------------------------------------
(* Program constants *)

CACHE_EXPIRE_MS_ADSB == 10000
CACHE_EXPIRE_MS_AIRCRAFT_CPR == 1000
CACHE_EXPIRE_MS_NETRID == 10000
CACHE_EXPIRE_MS_AIRCRAFT_ADSB == 10000
CACHE_EXPIRE_MS_MAVLINK_ADSB == 5000
MAVLINK_PKT_MAX_SIZE_BYTES == 280
N_REPORTERS_NEEDED == 1
ADSB_SIZE_BYTES == 14
REMOTE_ID_PACKET_LENGTH == 25

\* clock advances the environment may make between two steps
TickSteps == {1000, 10000}

-----------------------------------------------------------------------------
(* Strings and numbers *)

HexDigit == <<"0","1","2","3","4","5","6","7","8","9","a","b","c","d","e","f">>
DecDigit == <<"0","1","2","3","4","5","6","7","8","9">>

\* format!("{:02x}", byte)
Hex2(b) == HexDigit[(b \div 16) + 1] \o HexDigit[(b % 16) + 1]

\* crate::cache::bytes_to_key
RECURSIVE bytes_to_key(_)
bytes_to_key(bytes) ==
    IF bytes = <<>> THEN "" ELSE Hex2(Head(bytes)) \o bytes_to_key(Tail(bytes))

\* format!("{:x}", n): lower-case hex, no leading zeros
RECURSIVE HexStr(_)
HexStr(n) ==
    IF n < 16 THEN HexDigit[n + 1] ELSE HexStr(n \div 16) \o HexDigit[(n % 16) + 1]

\* n.to_string() as the bytes stored in the cache
RECURSIVE to_string(_)
to_string(n) ==
    IF n < 10 THEN <<DecDigit[n + 1]>>
    ELSE Append(to_string(n \div 10), DecDigit[(n % 10) + 1])

DigitVal(ch) == CHOOSE d \in 0..9 : DecDigit[d + 1] = ch
IsDigits(s) == /\ Len(s) > 0
               /\ \A i \in 1..Len(s) : \E d \in 0..9 : DecDigit[d + 1] = s[i]

\* the value of a string of decimal digits
RECURSIVE DecValue(_)
DecValue(s) ==
    IF Len(s) = 1 THEN DigitVal(s[1])
    ELSE 10 * DecValue(SubSeq(s, 1, Len(s) - 1)) + DigitVal(s[Len(s)])

\* the integer parse the cache server applies to a stored value before INCR:
\* decimal digits with no sign and no leading zero; -1 = not an integer.
\* (Counters are created at 1 and only incremented, so no stored value is
\* negative.)
RedisInt(s) ==
    IF ~IsDigits(s) \/ (Len(s) > 1 /\ s[1] = "0") THEN -1 ELSE DecValue(s)

RECURSIVE StripZeros(_)
StripZeros(s) == IF Len(s) > 1 /\ s[1] = "0" THEN StripZeros(Tail(s)) ELSE s

\* u32::MAX = 4294967295, as digits
U32MaxDigits == <<"4", "2", "9", "4", "9", "6", "7", "2", "9", "5">>

\* a > b for two digit strings of the same length
DigitsGreater(a, b) ==
    \E i \in 1..Len(a) : /\ DigitVal(a[i]) > DigitVal(b[i])
                         /\ \A j \in 1..(i - 1) : a[j] = b[j]

\* u32::from_str: an optional "+", then one or more decimal digits (leading
\* zeros allowed) whose value is at most u32::MAX; -1 = Err(ParseIntError).
\* The range test is made on the digits; the value itself is an integer of
\* the model checker for values below 2^31.
from_str(s) ==
    LET digits == IF Len(s) > 1 /\ s[1] = "+" THEN Tail(s) ELSE s
        sig == StripZeros(digits)
    IN IF ~IsDigits(digits) THEN -1
       ELSE IF Len(sig) > 10 \/ (Len(sig) = 10 /\ DigitsGreater(sig, U32MaxDigits))
       THEN -1
       ELSE DecValue(sig)

-----------------------------------------------------------------------------
(* The cache server: a key space with millisecond expiry *)

NoExpiry == -1

\* a key is visible at time t if it is stored and has not reached its expiry
Live(c, k, t) == k \in DOMAIN c /\ (c[k].exp = NoExpiry \/ c[k].exp > t)

\* drop what has expired at time t
Purge(c, t) == [k \in {x \in DOMAIN c : Live(c, x, t)} |-> c[k]]

Put(c, k, e) == [x \in DOMAIN c \cup {k} |-> IF x = k THEN e ELSE c[x]]

\* (mutant) the counter is written with SET 1 instead of INCR
RedisIncr_reset(c, k, t) == Put(c, k, [val |-> to_string(1), exp |-> NoExpiry])

\* INCR key: creates the key at 1 (without expiry) or adds one, keeping the expiry
RedisIncr(c, k, t) ==
    IF Live(c, k, t)
    THEN Put(c, k, [val |-> to_string(RedisInt(c[k].val) + 1), exp |-> c[k].exp])
    ELSE Put(c, k, [val |-> to_string(1), exp |-> NoExpiry])

\* PEXPIRE key ms (no NX): the expiry becomes now + ms, whatever it was
RedisPexpire(c, k, ms, t) ==
    IF Live(c, k, t) THEN Put(c, k, [val |-> c[k].val, exp |-> t + ms]) ELSE c

\* PSETEX key ms value
RedisPsetex(c, k, v, ms, t) == Put(c, k, [val |-> v, exp |-> t + ms])

\* one element of an MGET reply
RedisGet(c, k, t) ==
    IF Live(c, k, t) THEN [tag |-> "Data", data |-> c[k].val] ELSE [tag |-> "Nil"]

-----------------------------------------------------------------------------
(* TelemetryPool *)

Ok(v) == [ok |-> TRUE, v |-> v]
Err(e) == [ok |-> FALSE, e |-> e]

\* format!("{}:{}", &self.key_folder, key)
FolderKey(folder, key) == folder \o ":" \o key

\* redis::Value::Int, an i64, written hi * 2^32 + lo with 0 <= lo < 2^31
Int64(hi, lo) == [tag |-> "Int", hi |-> hi, v |-> lo]

\* The reply of the atomic INCR + PEXPIRE pipeline as increment reads it:
\* the replies of the commands not marked ignore(), here the one of INCR.
IncrementReply(c, k, t) ==
    [tag |-> "Bulk", items |-> <<Int64(0, RedisInt(RedisIncr(c, k, t)[k].val))>>]

\* what increment makes of a reply: `value < 1` is a comparison of i64, and
\* `value as u32` keeps the low 32 bits
increment_parse(result) ==
    IF result.tag # "Bulk" THEN Err("OperationFailed")
    ELSE IF result.items = <<>> THEN Err("OperationFailed")
    ELSE LET value == result.items[Len(result.items)] IN
         IF value.tag # "Int" THEN Err("OperationFailed")
         ELSE IF value.hi < 0 \/ (value.hi = 0 /\ value.v < 1) THEN Err("OperationFailed")
         ELSE Ok(value.v)

\* TelemetryPool::increment.  conn: "ok", "CouldNotConnect" (no connection from
\* the pool) or "OperationFailed" (the query fails before it is executed).
increment(c, folder, key, expiration_ms, t, conn) ==
    LET k == FolderKey(folder, key) IN
    IF conn # "ok" THEN [cache |-> c, res |-> Err(conn)]
    ELSE [cache |-> RedisPexpire(RedisIncr(c, k, t), k, expiration_ms, t),
          res   |-> increment_parse(IncrementReply(c, k, t))]

ConnOutcomes == {"ok", "CouldNotConnect", "OperationFailed"}

-----------------------------------------------------------------------------
(* Bytes and bit fields *)

Pow2(n) == 2 ^ n

\* bit i of a byte string, bits numbered from 0, most significant first
BitAt(bytes, i) == (bytes[(i \div 8) + 1] \div Pow2(7 - (i % 8))) % 2

\* the n-bit big-endian field starting at bit position from
RECURSIVE Field(_, _, _)
Field(bytes, from, n) ==
    IF n = 0 THEN 0
    ELSE 2 * Field(bytes, from, n - 1) + BitAt(bytes, from + n - 1)

IsCont(b) == b >= 128 /\ b <= 191

\* String::from_utf8 / std::str::from_utf8: is the byte string valid UTF-8?
RECURSIVE ValidUtf8(_)
ValidUtf8(bs) ==
    IF bs = <<>> THEN TRUE
    ELSE LET b == bs[1]
             n == Len(bs)
             rest(k) == SubSeq(bs, k + 1, n)
         IN
         IF b < 128 THEN ValidUtf8(rest(1))
         ELSE IF b >= 194 /\ b <= 223
              THEN n >= 2 /\ IsCont(bs[2]) /\ ValidUtf8(rest(2))
         ELSE IF b >= 224 /\ b <= 239
              THEN /\ n >= 3
                   /\ IsCont(bs[2]) /\ IsCont(bs[3])
                   /\ (b = 224 => bs[2] >= 160)
                   /\ (b = 237 => bs[2] <= 159)
                   /\ ValidUtf8(rest(3))
         ELSE IF b >= 240 /\ b <= 244
              THEN /\ n >= 4
                   /\ IsCont(bs[2]) /\ IsCont(bs[3]) /\ IsCont(bs[4])
                   /\ (b = 240 => bs[2] >= 144)
                   /\ (b = 244 => bs[2] <= 143)
                   /\ ValidUtf8(rest(4))
         ELSE FALSE

-----------------------------------------------------------------------------
(* ADS-B frames as adsb_deku::Frame::from_bytes reads them *)

\* downlink formats the parser knows; any other value is a parse error
KnownDF == {0, 4, 5, 11, 16, 17, 18, 19, 20, 21} \cup (24..31)

\* msg::adsb::get_adsb_icao_address: the three bytes as the low 24 bits
get_adsb_icao_address(icao) == (icao[1] * 256 + icao[2]) * 256 + icao[3]

\* msg::adsb::get_adsb_message_type
get_adsb_message_type(bytes) == (bytes[5] \div 8) % 32

\* the 6-bit character set of the identification message
CallsignChars ==
    <<"#","A","B","C","D","E","F","G","H","I","J","K","L","M","N","O",
      "P","Q","R","S","T","U","V","W","X","Y","Z","#","#","#","#","#",
      " ","#","#","#","#","#","#","#","#","#","#","#","#","#","#","#",
      "0","1","2","3","4","5","6","7","8","9","#","#","#","#","#","#">>

RECURSIVE Callsign(_, _)
Callsign(bytes, i) ==
    IF i = 8 THEN "" ELSE CallsignChars[Field(bytes, 40 + 6 * i, 6) + 1] \o Callsign(bytes, i + 1)

\* TypeCoding of an identification message: type code 1..4 is D, C, B, A
TypeCodingOf(tc) == <<"D", "C", "B", "A">>[tc]

\* The ME field of a DF17 frame, selected by the 5-bit type code.
AdsbMe(bytes) ==
    LET tc == Field(bytes, 32, 5) IN
    IF tc \in 1..4
    THEN [me |-> "Identification", tc |-> TypeCodingOf(tc), ca |-> Field(bytes, 37, 3),
          cn |-> Callsign(bytes, 0)]
    ELSE IF tc \in 9..18
    THEN [me |-> "AirbornePosition",
          alt |-> Field(bytes, 40, 12),          \* 0: no altitude available
          odd_flag |-> IF BitAt(bytes, 53) = 1 THEN "Odd" ELSE "Even",
          lat_cpr |-> Field(bytes, 54, 17),
          lon_cpr |-> Field(bytes, 71, 17)]
    ELSE IF tc = 19
    THEN LET st == Field(bytes, 37, 3) IN
         [me |-> "AirborneVelocity", st |-> st,
          sub_type |-> IF st \in {1, 2} THEN "GroundSpeedDecoding"
                       ELSE IF st \in {3, 4} THEN "AirspeedDecoding" ELSE "Reserved",
          ew_sign |-> BitAt(bytes, 45), ew_vel |-> Field(bytes, 46, 10),
          ns_sign |-> BitAt(bytes, 56), ns_vel |-> Field(bytes, 57, 10),
          vrate_sign |-> BitAt(bytes, 68), vrate_value |-> Field(bytes, 69, 9)]
    ELSE [me |-> "Other"]

\* adsb_deku::Frame::from_bytes on a 14-byte payload
AdsbFrame(bytes) ==
    LET df == Field(bytes, 0, 5) IN
    IF df \notin KnownDF THEN Err("parse")
    ELSE IF df # 17 THEN Ok([df |-> "Other"])
    ELSE Ok([df |-> "ADSB", icao |-> SubSeq(bytes, 2, 4), me |-> AdsbMe(bytes)])

-----------------------------------------------------------------------------
(* ADS-B decoders (msg::adsb, rest::api::adsb) *)

\* a table that knows category 6 of set B, the unmanned aircraft
get_aircraft_type_uas(type_coding, aircraft_category) ==
    IF type_coding = "D" \/ aircraft_category = 0 THEN "Other"
    ELSE IF type_coding = "B" /\ aircraft_category = 6 THEN "Uas"
    ELSE IF type_coding = "B" /\ aircraft_category = 7 THEN "Rocket"
    ELSE "Other"

\* rest::api::adsb::get_aircraft_type
get_aircraft_type(type_coding, aircraft_category) ==
    CASE type_coding = "D" -> "Other"
      [] type_coding # "D" /\ aircraft_category = 0 -> "Other"
      [] type_coding = "C" /\ aircraft_category \in {1, 3} -> "Other"
      [] type_coding = "C" /\ aircraft_category \in {4, 5, 6, 7} -> "Groundobstacle"
      [] type_coding = "B" /\ aircraft_category = 1 -> "Glider"
      [] type_coding = "B" /\ aircraft_category = 2 -> "Airship"
      [] type_coding = "B" /\ aircraft_category = 3 -> "Unpowered"
      [] type_coding = "B" /\ aircraft_category = 4 -> "Glider"
      [] type_coding = "B" /\ aircraft_category = 5 -> "Other"
      [] type_coding = "B" /\ aircraft_category = 7 -> "Rocket"
      [] type_coding = "A" /\ aircraft_category = 7 -> "Rotorcraft"
      [] OTHER -> "Other"

CprScale == 131072

\* nl(lat) on the grid of even latitudes: entry n - 2 is the largest value of
\* lat * 2^17 / 6 (0..90 degrees) at which the f64 formula still yields >= n.
NLEvenMax ==
    <<1890394, 1873355, 1854486, 1834827, 1814735, 1794366, 1773797, 1753071, 1732210,
      1711226, 1690127, 1668914, 1647587, 1626143, 1604578, 1582887, 1561064, 1539102,
      1516992, 1494728, 1472298, 1449693, 1426903, 1403915, 1380718, 1357297, 1333639,
      1309728, 1285546, 1261075, 1236297, 1211187, 1185724, 1159881, 1133629, 1106935,
      1079765, 1052079, 1023832, 994973, 965444, 935179, 904102, 872121, 839132, 805006,
      769589, 732691, 694072, 653423, 610336, 564248, 514349, 459394, 397284, 323926,
      228730>>

\* the same on the grid of odd latitudes, in units of (360/59) / 2^17 degrees
NLOddMax ==
    <<1858887, 1842133, 1823578, 1804247, 1784489, 1764460, 1744234, 1723853, 1703339,
      1682706, 1661958, 1641099, 1620127, 1599040, 1577835, 1556506, 1535046, 1513450,
      1491709, 1469815, 1447759, 1425532, 1403121, 1380517, 1357706, 1334676, 1311412,
      1287899, 1264120, 1240057, 1215692, 1191001, 1165962, 1140550, 1114735, 1088486,
      1061769, 1034545, 1006768, 978390, 949353, 919593, 889033, 857586, 825146, 791589,
      756762, 720479, 682504, 642533, 600164, 554844, 505776, 451737, 390663, 318527,
      224918>>

Min(a, b) == IF a <= b THEN a ELSE b

\* nl of the even latitude 6 * e / 2^17 degrees, e in 0 .. 60 * 2^17
nl_even(e) ==
    LET r == e % (30 * CprScale)
        f == Min(r, 30 * CprScale - r)
        S == {n \in 3..59 : f <= NLEvenMax[n - 2]}
    IN IF S = {} THEN 2 ELSE CHOOSE n \in S : \A k \in S : k <= n

\* nl of the odd latitude (360/59) * o / 2^17 degrees, o in 0 .. 59 * 2^17
nl_odd(o) ==
    LET r == (2 * o) % (59 * CprScale)
        f == Min(r, 59 * CprScale - r)
        S == {n \in 3..59 : f <= 2 * NLOddMax[n - 2] + 1}
    IN IF S = {} THEN 2 ELSE CHOOSE n \in S : \A k \in S : k <= n

\* the zone counts n at which the f64 product (360 / n) * (n / 2) falls below
\* 180 (it is 179.99999999999997), so that `longitude >= 180.` is false at
\* exactly half a turn
HalfTurnBelow == {39}

\* msg::adsb::decode_cpr.  Latitude is returned as lat / 2^17 * 6 degrees and
\* longitude as lon / 2^17 * (360 / ni) degrees.  Every intermediate value of
\* the f64 computation that decides a branch is exact, but the longitude at
\* exactly half a turn, where the rounding of 360 / ni decides.
decode_cpr(lat_cpr_even, lon_cpr_even, lat_cpr_odd, lon_cpr_odd) ==
    LET lat_index == (59 * lat_cpr_even - 60 * lat_cpr_odd + 65536) \div CprScale
        e == lat_cpr_even + CprScale * (lat_index % 60)
        o == lat_cpr_odd + CprScale * (lat_index % 59)
        nl_le == nl_even(e)
        nl_lo == nl_odd(o)
        ni == IF nl_le < 1 THEN 1 ELSE nl_le
        m == ((nl_le - 1) * lon_cpr_even - nl_le * lon_cpr_odd + 65536) \div CprScale
        l == lon_cpr_even + CprScale * (m % ni)
    IN
    IF nl_le # nl_lo THEN Err("CrossedLatitudeZones")
    ELSE Ok([lat |-> IF e >= 45 * CprScale THEN e - 60 * CprScale ELSE e,
             lon |-> IF \/ 2 * l > ni * CprScale
                       \/ (2 * l = ni * CprScale /\ ni \notin HalfTurnBelow)
                    THEN l - ni * CprScale ELSE l,
             ni  |-> ni])

\* msg::adsb::decode_speed_direction: the velocity components in knots, from
\* which speed = hypot(vx, vy) and direction = atan2(vx, vy) are taken
decode_speed_direction(st, ew_sign, ew_vel, ns_sign, ns_vel) ==
    IF st = 1
    THEN Ok([vx |-> IF ew_sign = 0 THEN ew_vel - 1 ELSE -(ew_vel - 1),
             vy |-> IF ns_sign = 0 THEN ns_vel - 1 ELSE -(ns_vel - 1)])
    ELSE IF st = 2
    THEN Ok([vx |-> IF ew_sign = 0 THEN 4 * (ew_vel - 1) ELSE (-4) * (ew_vel - 1),
             vy |-> IF ns_sign = 0 THEN 4 * (ns_vel - 1) ELSE (-4) * (ns_vel - 1)])
    ELSE IF st \in {3, 4} THEN Err("UnsupportedSubtype")
    ELSE Err("InvalidSubtype")

\* msg::adsb::decode_vertical_speed, in feet per second (times 0.3048 for m/s)
decode_vertical_speed(vrate_sign, vrate_value) ==
    Ok(IF vrate_sign = 0 THEN 64 * (vrate_value - 1) ELSE (-64) * (vrate_value - 1))

-----------------------------------------------------------------------------
(* Remote-ID frames (msg::netrid) *)

\* MessageType: the values the enum defines; unpack fails on any other nibble
MessageTypeOf(n) ==
    CASE n = 0 -> "Basic" [] n = 1 -> "Location" [] n = 2 -> "Authentication"
      [] n = 3 -> "SelfId" [] n = 4 -> "System" [] n = 5 -> "OperatorId"
      [] n = 15 -> "MessagePack" [] OTHER -> "invalid"

\* IdType
IdTypeOf(n) ==
    CASE n = 0 -> "None" [] n = 1 -> "SerialNumber" [] n = 2 -> "CaaAssigned"
      [] n = 3 -> "UtmAssigned" [] n = 4 -> "SpecificSession" [] OTHER -> "invalid"

\* UaType: all sixteen nibbles are defined
UaTypeOf(n) ==
    <<"Undeclared", "Aeroplane", "Rotorcraft", "Gyroplane", "HybridLift", "Ornithopter",
      "Glider", "Kite", "FreeBalloon", "CaptiveBalloon", "Airship", "Unpowered",
      "Rocket", "Tethered", "GroundObstacle", "Other">>[n + 1]

\* impl From<NetridAircraftType> for AircraftType
AircraftTypeFrom(t) ==
    CASE t = "Undeclared" -> "Undeclared" [] t = "Aeroplane" -> "Aeroplane"
      [] t = "Rotorcraft" -> "Rotorcraft" [] t = "Gyroplane" -> "Gyroplane"
      [] t = "HybridLift" -> "Hybridlift" [] t = "Ornithopter" -> "Ornithopter"
      [] t = "Glider" -> "Glider" [] t = "Kite" -> "Kite"
      [] t = "FreeBalloon" -> "Freeballoon" [] t = "CaptiveBalloon" -> "Captiveballoon"
      [] t = "Airship" -> "Airship" [] t = "Unpowered" -> "Unpowered"
      [] t = "Rocket" -> "Rocket" [] t = "Tethered" -> "Tethered"
      [] t = "GroundObstacle" -> "Groundobstacle" [] t = "Other" -> "Other"

\* Frame::unpack on 25 bytes: header nibbles and the 24 message bytes
FrameUnpack(bytes) ==
    LET mt == MessageTypeOf(bytes[1] \div 16) IN
    IF mt = "invalid" THEN Err("unpack")
    ELSE Ok([header |-> [message_type |-> mt, protocol_version |-> bytes[1] % 16],
             message |-> SubSeq(bytes, 2, 25)])

\* BasicMessage::unpack on the 24 message bytes
BasicUnpack(m) ==
    LET it == IdTypeOf(m[1] \div 16) IN
    IF it = "invalid" THEN Err("unpack")
    ELSE Ok([id_type |-> it, ua_type |-> UaTypeOf(m[1] % 16),
             uas_id |-> SubSeq(m, 2, 21), reserved |-> SubSeq(m, 22, 24)])

\* little-endian fields
U16Le(m, i) == m[i] + 256 * m[i + 1]
I32Le(m, i) ==
    m[i] + 256 * m[i + 1] + 65536 * m[i + 2]
      + 16777216 * (IF m[i + 3] >= 128 THEN m[i + 3] - 256 ELSE m[i + 3])
I8(b) == IF b >= 128 THEN b - 256 ELSE b

\* LocationMessage::unpack: fails when an enum nibble has no variant
LocationUnpack(m) ==
    LET status == m[1] \div 16
        vacc == m[19] \div 16
        hacc == m[19] % 16
        bacc == m[20] \div 16
        sacc == m[20] % 16
    IN
    IF status > 4 \/ vacc > 6 \/ hacc > 12 \/ bacc > 6 \/ sacc > 4 THEN Err("unpack")
    ELSE Ok([operational_status |-> status,
             height_type |-> (m[1] \div 4) % 2,
             ew_direction |-> IF (m[1] \div 2) % 2 = 1 THEN "West" ELSE "East",
             speed_multiplier |-> IF m[1] % 2 = 1 THEN "X0_75" ELSE "X0_25",
             track_direction |-> m[2],
             speed |-> m[3],
             vertical_speed |-> I8(m[4]),
             latitude |-> I32Le(m, 5),
             longitude |-> I32Le(m, 9),
             pressure_altitude |-> U16Le(m, 13),
             geodetic_altitude |-> U16Le(m, 15),
             height |-> U16Le(m, 17),
             timestamp |-> U16Le(m, 21),
             timestamp_accuracy |-> m[23] % 16])

\* LocationMessage::decode_direction
decode_direction(msg) ==
    IF msg.ew_direction = "East" THEN msg.track_direction ELSE msg.track_direction + 180

\* LocationMessage::decode_altitude, in half metres (the f32 values are exact)
decode_altitude_netrid(msg) ==
    LET altitude2 == msg.pressure_altitude - 2000 IN
    IF altitude2 = -2000 THEN Err("UnknownAltitude") ELSE Ok(altitude2)

\* LocationMessage::decode_speed, in quarter metres per second
decode_speed(msg) ==
    LET speed4 == IF msg.speed_multiplier = "X0_25" THEN msg.speed
                  ELSE 3 * msg.speed + 255
    IN IF speed4 = 1020 THEN Err("UnknownSpeed")
       ELSE IF speed4 = 1017 THEN Err("SpeedGte254_25")
       ELSE Ok(speed4)

\* LocationMessage::decode_vertical_speed, in half metres per second
decode_vertical_speed_netrid(msg) ==
    LET speed2 == msg.vertical_speed IN
    IF speed2 = 126 THEN Err("UnknownSpeed")
    ELSE IF speed2 >= 124 THEN Ok(124)
    ELSE IF speed2 <= -124 THEN Ok(-124)
    ELSE Ok(speed2)

\* the UTF-8 encodings of the characters with the Unicode White_Space
\* property: U+0009..U+000D, U+0020, U+0085, U+00A0, U+1680, U+2000..U+200A,
\* U+2028, U+2029, U+202F, U+205F and U+3000
WhiteSpace ==
    {<<b>> : b \in {9, 10, 11, 12, 13, 32}}
    \cup {<<194, 133>>, <<194, 160>>, <<225, 154, 128>>}
    \cup {<<226, 128, b>> : b \in (128..138) \cup {168, 169, 175}}
    \cup {<<226, 129, 159>>, <<227, 128, 128>>}

\* the lengths of the white-space characters bs starts with, and ends with
\* (at most one each: in valid UTF-8 no encoding is a prefix or a suffix of
\* another)
SpaceAtStart(bs) ==
    {Len(w) : w \in {x \in WhiteSpace : Len(x) <= Len(bs) /\ SubSeq(bs, 1, Len(x)) = x}}
SpaceAtEnd(bs) ==
    {Len(w) : w \in {x \in WhiteSpace :
                        /\ Len(x) <= Len(bs)
                        /\ SubSeq(bs, Len(bs) - Len(x) + 1, Len(bs)) = x}}

\* str::trim_start, str::trim_end and str::trim on the bytes of a string
RECURSIVE TrimStart(_)
TrimStart(bs) ==
    IF SpaceAtStart(bs) = {} THEN bs
    ELSE TrimStart(SubSeq(bs, (CHOOSE n \in SpaceAtStart(bs) : TRUE) + 1, Len(bs)))
RECURSIVE TrimEnd(_)
TrimEnd(bs) ==
    IF SpaceAtEnd(bs) = {} THEN bs
    ELSE TrimEnd(SubSeq(bs, 1, Len(bs) - (CHOOSE n \in SpaceAtEnd(bs) : TRUE)))
Trim(bs) == TrimEnd(TrimStart(bs))

-----------------------------------------------------------------------------
(* Remaining pool operations (cache::pool) and small codecs *)

\* msg::adsb::decode_altitude: n * coef_ft - 1000 is computed in u32; the
\* record keeps the mathematical value in feet and whether the subtraction
\* underflows (metres = 0.3048 * feet)
decode_altitude(altitude) ==
    LET coef_ft == IF (altitude \div 16) % 2 = 1 THEN 25 ELSE 100
        n == ((altitude \div 32) % 128) * 16 + (altitude % 16)
    IN [alt_ft |-> n * coef_ft - 1000, underflow |-> n * coef_ft < 1000]

HourMs == 3600000

\* LocationMessage::decode_timestamp, in ms; the clock of the model starts at
\* the top of an hour
decode_timestamp(timestamp, t) ==
    LET ms_since_hour == t % HourMs
        tenths_since_hour == ms_since_hour \div 100
        current_hour == t - ms_since_hour
    IN IF timestamp > tenths_since_hour
       THEN Ok((current_hour - HourMs) + timestamp * 100)
       ELSE Ok(current_hour + timestamp * 100)

\* the characters of printable ASCII, code 32 first; the quote, the percent
\* sign, the backslash and the backtick are written %hh
Ascii ==
    <<" ", "!", "%22", "#", "$", "%25", "&", "'", "(", ")", "*", "+", ",", "-", ".", "/",
      "0", "1", "2", "3", "4", "5", "6", "7", "8", "9", ":", ";", "<", "=", ">", "?",
      "@", "A", "B", "C", "D", "E", "F", "G", "H", "I", "J", "K", "L", "M", "N", "O",
      "P", "Q", "R", "S", "T", "U", "V", "W", "X", "Y", "Z", "[", "%5c", "]", "^", "_",
      "%60", "a", "b", "c", "d", "e", "f", "g", "h", "i", "j", "k", "l", "m", "n", "o",
      "p", "q", "r", "s", "t", "u", "v", "w", "x", "y", "z", "{", "|", "}", "~">>

\* the text of a valid UTF-8 byte string; bytes outside printable ASCII are
\* written %hh so that distinct byte strings give distinct texts
RECURSIVE Utf8Str(_)
Utf8Str(bs) ==
    IF bs = <<>> THEN ""
    ELSE (IF Head(bs) \in 32..126 THEN Ascii[Head(bs) - 31]
          ELSE "%" \o Hex2(Head(bs))) \o Utf8Str(Tail(bs))

\* Vec<String>::join
RECURSIVE Join(_, _)
Join(strs, sep) ==
    IF strs = <<>> THEN ""
    ELSE IF Len(strs) = 1 THEN strs[1]
    ELSE strs[1] \o sep \o Join(Tail(strs), sep)

\* PSETEX of every pair, in order
RECURSIVE PsetexAll(_, _, _, _)
PsetexAll(c, keyvals, ms, t) ==
    IF keyvals = <<>> THEN c
    ELSE PsetexAll(RedisPsetex(c, keyvals[1][1], keyvals[1][2], ms, t), Tail(keyvals), ms, t)

\* what the client library hands back for a transaction in which every command
\* is ignore()d is not fixed by this code: a status or an array of the replies
\* that were not ignored
MultipleSetReplies == {"Okay", "Bulk"}

\* TelemetryPool::multiple_set
multiple_set(c, keyvals, expiration_ms, t, conn, reply) ==
    IF conn # "ok" THEN [cache |-> c, res |-> Err(conn)]
    ELSE [cache |-> PsetexAll(c, keyvals, expiration_ms, t),
          res |-> IF reply = "Okay" THEN Ok(<<>>) ELSE Err("OperationFailed")]

\* the reply to MGET: one entry per argument
MgetReply(c, args, t) ==
    [tag |-> "Bulk", items |-> [i \in 1..Len(args) |-> RedisGet(c, args[i], t)]]

\* the filter_map of multiple_get: the Data replies that parse as a number
RECURSIVE DataValues(_)
DataValues(items) ==
    IF items = <<>> THEN <<>>
    ELSE LET v == items[1] IN
         IF v.tag = "Data" /\ from_str(v.data) >= 0
         THEN <<from_str(v.data)>> \o DataValues(Tail(items))
         ELSE DataValues(Tail(items))

\* a multiple_get that hands back what parsed, however many
multiple_get_unchecked(c, keys, t, conn) ==
    IF conn # "ok" THEN Err(conn)
    ELSE Ok(DataValues(<<MgetReply(c, <<Join(keys, " ")>>, t)>>))

\* TelemetryPool::multiple_get::<u32>: one MGET whose only argument is the
\* keys joined by a blank, sent in a transaction
multiple_get(c, keys, t, conn) ==
    IF conn # "ok" THEN Err(conn)
    ELSE LET result == [tag |-> "Bulk", items |-> <<MgetReply(c, <<Join(keys, " ")>>, t)>>]
             values == DataValues(result.items)
         IN IF Len(values) # Len(keys) THEN Err("OperationFailed") ELSE Ok(values)

\* LPUSH
RedisLpush(l, k, v) ==
    [x \in DOMAIN l \cup {k} |-> IF x = k THEN <<v>> \o (IF k \in DOMAIN l THEN l[k] ELSE <<>>)
                                 ELSE l[x]]

\* a push that reports success without writing the queue
push_dropped(l, item, queue_key, conn) == [lists |-> l, res |-> Ok(<<>>)]

\* GisPool::push
push(l, item, queue_key, conn) ==
    IF queue_key = "" THEN [lists |-> l, res |-> Err("empty")]
    ELSE IF conn # "ok" THEN [lists |-> l, res |-> Err(conn)]
    ELSE LET l2 == RedisLpush(l, queue_key, item)
             values == <<[tag |-> "Int", v |-> Len(l2[queue_key])]>>
         IN [lists |-> l2, res |-> IF Len(values) = 1 THEN Ok(<<>>) ELSE Err("reply")]

\* RedisPool::increment as its contract states it: INCR, and PEXPIRE when the
\* counter was created by this call
pool_increment(c, folder, key, ttl_ms, t, conn) ==
    LET k == FolderKey(folder, key)
        c1 == RedisIncr(c, k, t)
        n == RedisInt(c1[k].val)
    IN IF conn # "ok" THEN [cache |-> c, res |-> Err(conn)]
       ELSE [cache |-> IF n = 1 THEN RedisPexpire(c1, k, ttl_ms, t) ELSE c1,
             res |-> IF n < 1 THEN Err("OperationFailed") ELSE Ok(n)]

\* a comparison that lets every count through
count_cmp_equal(count) == "Equal"

\* count.cmp(&N_REPORTERS_NEEDED)
count_cmp(count) ==
    IF count < N_REPORTERS_NEEDED THEN "Less"
    ELSE IF count > N_REPORTERS_NEEDED THEN "Greater"
    ELSE "Equal"

-----------------------------------------------------------------------------
(* Pool-level specification: callers of increment and the clock *)

PoolFolder == "tlm:adsb"
PoolKeys == {"8d", "8e"}
PoolTtls == {1000, 10000}

EmptyFn == [x \in {} |-> 0]

IngestIdle ==
    /\ req = <<>>
    /\ lists = EmptyFn
    /\ mq = EmptyFn
    /\ stored = EmptyFn

\* the secret rest_server() draws before it serves: 42 random alphanumerics,
\* here one fixed name
ProcessSecret == "k1"

\* the token service after rest_server() has set the secret, nobody logged in
JwtIdle ==
    /\ jwt_secret = <<ProcessSecret>>
    /\ logins = <<>>
    /\ creds = <<>>

\* the batch loop at its first sleep with `data` the default request
BatStart == [pc |-> "sleep", data |-> <<>>, iter |-> 0, drained |-> 0]

\* Config::new(): ringbuffer_size_bytes and gis_max_message_size_bytes
ringbuffer_size_bytes == 4096
gis_max_message_size_bytes == 2048

\* the egress ring with no producer and the loop not yet past its first sleep
EgressIdle ==
    /\ loop_kind = "Batch"
    /\ max_message_size_bytes = gis_max_message_size_bytes
    /\ ring = <<>>
    /\ ring_lock = "free"
    /\ prod = EmptyFn
    /\ bat = BatStart
    /\ gis_client = "none"
    /\ sent = <<>>
    /\ pushed = 0

\* nobody has probed /health, and both services are up
HealthIdle == probes = <<>> /\ ready = [storage |-> TRUE, gis |-> TRUE]

\* no decoder is under study
CodecIdle == wire = <<>> /\ decoded = <<>>

\* CcsdsBuilder::default(): no header, no data
BuilderDefault ==
    [alive |-> TRUE, header |-> <<>>, has_secondary_header |-> FALSE,
     has_user_data |-> FALSE, data |-> <<>>]

\* nobody has called the builder
BuilderIdle == builder = BuilderDefault /\ trace = <<>>

InitCache ==
    /\ now = 0
    /\ cache = EmptyFn
    /\ calls = [k \in PoolKeys |-> <<>>]
    /\ keyTtl \in [PoolKeys -> PoolTtls]
    /\ IngestIdle
    /\ JwtIdle
    /\ HealthIdle
    /\ BuilderIdle
    /\ CodecIdle
    /\ EgressIdle

RECURSIVE SumLen(_, _)
SumLen(f, S) ==
    IF S = {} THEN 0 ELSE LET x == CHOOSE y \in S : TRUE IN Len(f[x]) + SumLen(f, S \ {x})

TotalCalls == SumLen(calls, DOMAIN calls)

\* one caller invokes increment(key, ttl) and gets its result
CacheIncrement(key, conn) ==
    /\ TotalCalls < MaxCalls
    /\ LET r == increment(cache, PoolFolder, key, keyTtl[key], now, conn)
           k == FolderKey(PoolFolder, key)
           absent == k \notin DOMAIN cache \/ cache[k].exp <= now
       IN /\ cache' = r.cache
          /\ calls' = IF r.res.ok
                      THEN [calls EXCEPT ![key] =
                              Append(@, [t |-> now, ret |-> r.res.v, absent |-> absent,
                                         exp |-> r.cache[FolderKey(PoolFolder, key)].exp])]
                      ELSE calls
    /\ UNCHANGED <<now, keyTtl, req, lists, mq, stored>>
    /\ UNCHANGED <<jwtVars, egressVars, healthVars, codecVars, builderVars>>

CacheTick(d) ==
    /\ now + d <= MaxTime
    /\ now' = now + d
    /\ cache' = Purge(cache, now + d)
    /\ UNCHANGED <<calls, keyTtl, req, lists, mq, stored>>
    /\ UNCHANGED <<jwtVars, egressVars, healthVars, codecVars, builderVars>>

NextCache ==
    \/ \E key \in PoolKeys, conn \in ConnOutcomes : CacheIncrement(key, conn)
    \/ \E d \in TickSteps : CacheTick(d)

SpecCache == InitCache /\ [][NextCache]_vars

-----------------------------------------------------------------------------
\* C1: calls of increment(key, ttl) made within ttl of a call that returned 1
\* return 1, 2, ..., n in call order, and a call that finds the entry expired
\* (or never created) returns 1.
C1_IncrementSequence ==
    \A key \in PoolKeys :
        LET h == calls[key] IN
        /\ \A i \in 1..Len(h) : \A j \in i..Len(h) :
              (h[i].ret = 1 /\ h[j].t < h[i].t + keyTtl[key]) => h[j].ret = 1 + (j - i)
        /\ \A i \in 1..Len(h) : h[i].absent => h[i].ret = 1

\* a second call inside the ttl of the first returned 2, and a call that found
\* the entry expired returned 1 again
C1_Witness ==
    \E key \in PoolKeys :
        LET h == calls[key] IN
        /\ Len(h) = 3
        /\ h[1].ret = 1 /\ h[2].ret = 2 /\ h[2].t < h[1].t + keyTtl[key]
        /\ h[3].ret = 1 /\ h[3].absent

\* C2: the expiry of a dedup entry is the time of the call that created it plus
\* the ttl of that call, after every later increment as well.
C2_TtlFixedAtCreate ==
    \A key \in PoolKeys :
        LET h == calls[key] IN
        \A i \in 1..Len(h) : \A j \in i..Len(h) :
            (h[i].absent /\ \A m \in (i + 1)..j : ~h[m].absent)
                => h[j].exp = h[i].t + keyTtl[key]

-----------------------------------------------------------------------------
(* The REST handlers (rest::api::adsb, rest::api::netrid, rest::api::aircraft) *)

\* key folders of the two pools the server creates
AdsbFolder == "tlm:adsb"
NetridFolder == "tlm:netrid"
\* key folder of the pool behind /telemetry/aircraft/adsb
AircraftFolder == "adsb"

\* queue keys of the spatial service; its client crate defines them, the
\* handlers need them non-empty and distinct
REDIS_KEY_AIRCRAFT_ID == "aircraft:id"
REDIS_KEY_AIRCRAFT_POSITION == "aircraft:position"
REDIS_KEY_AIRCRAFT_VELOCITY == "aircraft:velocity"

ROUTING_KEY_ADSB == "adsb"
ROUTING_KEY_NETRID_ID == "netrid:id"
ROUTING_KEY_NETRID_POSITION == "netrid:pos"
ROUTING_KEY_NETRID_VELOCITY == "netrid:vel"

\* Option<T>
Some(x) == <<x>>
None == <<>>

\* a request as it enters its handler.  incr: the handler executed INCR on its
\* dedup key; fresh: that key was absent or expired at that moment; gate: the
\* handler went on past the count comparison; cprset: it wrote CPR halves;
\* fault: a call it made to the cache, the broker or the storage service
\* failed; item: the records it still has to push or publish
NewRequest(ep, payload, sub, t) ==
    [ep |-> ep, payload |-> payload, sub |-> sub, t0 |-> t, pc |-> "start",
     count |-> 0, status |-> 0, body |-> 0,
     incr |-> FALSE, fresh |-> FALSE, gate |-> FALSE, cprset |-> FALSE, fault |-> FALSE,
     item |-> <<>>]

\* the handler returns: Ok(Json(body)) is 200, Err(status) has no body
Answer(r, status, body) ==
    [r EXCEPT !.pc = "done", !.status = status, !.body = body, !.item = <<>>]

Faulted(r, failed) == [r EXCEPT !.fault = @ \/ failed]

Absent(c, k, t) == k \notin DOMAIN c \/ (c[k].exp # NoExpiry /\ c[k].exp <= t)

QueueKey(kind) ==
    CASE kind = "AircraftId" -> REDIS_KEY_AIRCRAFT_ID
      [] kind = "AircraftPosition" -> REDIS_KEY_AIRCRAFT_POSITION
      [] kind = "AircraftVelocity" -> REDIS_KEY_AIRCRAFT_VELOCITY

\* the messages a request has had accepted by the broker / the storage service
LogAdd(log, i, entry) ==
    [x \in DOMAIN log \cup {i} |->
        IF x = i THEN (IF i \in DOMAIN log THEN log[i] ELSE <<>>) \o <<entry>> ELSE log[x]]

\* Display of CPRFormat
CprFormatText(odd_flag) == IF odd_flag = "Odd" THEN "odd" ELSE "even"

\* the key/value pairs adsb() hands to multiple_set
AdsbKeyvals(icao, me) ==
    << <<HexStr(icao) \o ":lat_cpr:" \o CprFormatText(me.odd_flag), to_string(me.lat_cpr)>>,
       <<HexStr(icao) \o ":lon_cpr:" \o CprFormatText(me.odd_flag), to_string(me.lon_cpr)>> >>

\* the keys gis_position_push hands to multiple_get (CPRFormat::Odd as u8 is 1)
AdsbGetKeys(icao) ==
    <<HexStr(icao) \o ":lat_cpr:" \o "1", HexStr(icao) \o ":lon_cpr:" \o "1">>

\* adsb(), from the frame parse to its next await
adsb_decode(r, i, t) ==
    LET frame == AdsbFrame(r.payload) IN
    IF ~frame.ok THEN Answer(r, 400, 0)
    ELSE IF frame.v.df # "ADSB" THEN Answer(r, 400, 0)
    ELSE
    LET icao == get_adsb_icao_address(frame.v.icao)
        me == frame.v.me
    IN
    IF me.me = "Identification"
    THEN [r EXCEPT !.pc = "push",
                   !.item = <<[kind |-> "AircraftId", rid |-> i,
                               identifier |-> Some(me.cn), session_id |-> None,
                               aircraft_type |-> get_aircraft_type(me.tc, me.ca),
                               timestamp_network |-> t, timestamp_asset |-> None]>>]
    ELSE IF me.me = "AirbornePosition"
    THEN IF me.alt = 0 THEN Answer(r, 400, 0) ELSE [r EXCEPT !.pc = "multiple_set"]
    ELSE IF me.me = "AirborneVelocity"
    THEN IF me.sub_type # "GroundSpeedDecoding" THEN Answer(r, 501, 0)
         ELSE LET sd == decode_speed_direction(me.st, me.ew_sign, me.ew_vel,
                                               me.ns_sign, me.ns_vel)
                  vs == decode_vertical_speed(me.vrate_sign, me.vrate_value)
              IN IF ~sd.ok \/ ~vs.ok THEN Answer(r, 500, 0)
                 ELSE [r EXCEPT !.pc = "push",
                                !.item = <<[kind |-> "AircraftVelocity", rid |-> i,
                                            identifier |-> HexStr(icao),
                                            velocity_horizontal_ground |-> sd.v,
                                            velocity_vertical |-> vs.v,
                                            timestamp_network |-> t,
                                            timestamp_asset |-> None]>>]
    ELSE Answer(r, 400, 0)

\* the dedup gate shared by the handlers: the request after the comparison of
\* its count, decode(r1) being the rest of the handler
Gate(r, inc, fresh) ==
    LET r1 == [r EXCEPT !.incr = TRUE, !.fresh = fresh, !.count = inc.res.v] IN
    IF count_cmp(inc.res.v) = "Less" THEN [next |-> FALSE, r |-> Answer(r1, 500, 0)]
    ELSE IF count_cmp(inc.res.v) = "Greater"
    THEN [next |-> FALSE, r |-> Answer(r1, 200, inc.res.v)]
    ELSE [next |-> TRUE, r |-> [r1 EXCEPT !.gate = TRUE]]

\* POST /telemetry/adsb up to its first await after the dedup gate
AdsbBegin(payload, conn) ==
    /\ Len(req) < MaxReq
    /\ LET i == Len(req) + 1
           r0 == NewRequest("adsb", payload, <<>>, now)
           key == bytes_to_key(payload)
           inc == increment(cache, AdsbFolder, key, CACHE_EXPIRE_MS_ADSB, now, conn)
           g == Gate(r0, inc, Absent(cache, FolderKey(AdsbFolder, key), now))
       IN IF Len(payload) # ADSB_SIZE_BYTES
          THEN req' = Append(req, Answer(r0, 400, 0)) /\ cache' = cache
          ELSE IF ~inc.res.ok
          THEN req' = Append(req, Answer(Faulted(r0, TRUE), 500, 0)) /\ cache' = inc.cache
          ELSE /\ cache' = inc.cache
               /\ req' = Append(req, IF g.next THEN adsb_decode(g.r, i, now) ELSE g.r)
    /\ UNCHANGED <<now, calls, keyTtl, lists, mq, stored>>
    /\ UNCHANGED <<jwtVars, egressVars, healthVars, codecVars, builderVars>>

\* adsb(): multiple_set of the CPR halves, then gis_position_push up to its
\* multiple_get
AdsbMultipleSet(i, conn, reply) ==
    /\ req[i].ep = "adsb" /\ req[i].pc = "multiple_set"
    /\ LET r == req[i]
           frame == AdsbFrame(r.payload).v
           icao == get_adsb_icao_address(frame.icao)
           ms == multiple_set(cache, AdsbKeyvals(icao, frame.me),
                              CACHE_EXPIRE_MS_AIRCRAFT_CPR, now, conn, reply)
           r1 == Faulted([r EXCEPT !.cprset = (conn = "ok")], conn # "ok")
       IN /\ cache' = ms.cache
          /\ req' = [req EXCEPT ![i] =
                        IF ~ms.res.ok THEN Answer(r1, 500, 0)
                        ELSE IF frame.me.odd_flag = "Odd" THEN [r1 EXCEPT !.pc = "publish"]
                        ELSE [r1 EXCEPT !.pc = "multiple_get"]]
    /\ UNCHANGED <<now, calls, keyTtl, lists, mq, stored>>
    /\ UNCHANGED <<jwtVars, egressVars, healthVars, codecVars, builderVars>>

\* gis_position_push: multiple_get of the cached halves, decode_cpr, and the
\* position record to push
AdsbMultipleGet(i, conn) ==
    /\ req[i].ep = "adsb" /\ req[i].pc = "multiple_get"
    /\ LET r == Faulted(req[i], conn # "ok")
           frame == AdsbFrame(r.payload).v
           icao == get_adsb_icao_address(frame.icao)
           me == frame.me
           results == multiple_get(cache, AdsbGetKeys(icao), now, conn)
           cpr == decode_cpr(results.v[1], results.v[2], me.lat_cpr, me.lon_cpr)
       IN req' = [req EXCEPT ![i] =
                    IF ~results.ok THEN Answer(r, 500, 0)
                    ELSE IF Len(results.v) # 2 THEN Answer(r, 500, 0)
                    ELSE IF ~cpr.ok THEN Answer(r, 500, 0)
                    ELSE [r EXCEPT !.pc = "push",
                                   !.item = <<[kind |-> "AircraftPosition", rid |-> i,
                                               identifier |-> HexStr(icao),
                                               latitude |-> cpr.v.lat,
                                               longitude |-> cpr.v.lon,
                                               longitude_zones |-> cpr.v.ni,
                                               altitude |-> decode_altitude(me.alt),
                                               timestamp_network |-> now,
                                               timestamp_asset |-> None]>>]]
    /\ UNCHANGED <<now, cache, calls, keyTtl, lists, mq, stored>>
    /\ UNCHANGED <<jwtVars, egressVars, healthVars, codecVars, builderVars>>

\* gis_identifier_push / gis_position_push / gis_velocity_push: the push
AdsbGisPush(i, conn) ==
    /\ req[i].ep = "adsb" /\ req[i].pc = "push"
    /\ LET r == Faulted(req[i], conn # "ok")
           p == push(lists, r.item[1], QueueKey(r.item[1].kind), conn)
       IN /\ lists' = p.lists
          /\ req' = [req EXCEPT ![i] = IF ~p.res.ok THEN Answer(r, 500, 0)
                                       ELSE [r EXCEPT !.pc = "publish", !.item = <<>>]]
    /\ UNCHANGED <<now, cache, calls, keyTtl, mq, stored>>
    /\ UNCHANGED <<jwtVars, egressVars, healthVars, codecVars, builderVars>>

\* adsb(): basic_publish of the payload, its result dropped
AdsbPublish(i, accepted) ==
    /\ req[i].ep = "adsb" /\ req[i].pc = "publish"
    /\ mq' = IF accepted
             THEN LogAdd(mq, i, [routing_key |-> ROUTING_KEY_ADSB, msg |-> req[i].payload])
             ELSE mq
    /\ req' = [req EXCEPT ![i] = [Faulted(@, ~accepted) EXCEPT !.pc = "insert"]]
    /\ UNCHANGED <<now, cache, calls, keyTtl, lists, stored>>
    /\ UNCHANGED <<jwtVars, egressVars, healthVars, codecVars, builderVars>>

\* adsb(): the insert into svc-storage and the response
AdsbInsert(i, accepted) ==
    /\ req[i].ep = "adsb" /\ req[i].pc = "insert"
    /\ LET r == Faulted(req[i], ~accepted)
           data == [icao_address |-> get_adsb_icao_address(SubSeq(r.payload, 2, 4)),
                    message_type |-> get_adsb_message_type(r.payload),
                    network_timestamp |-> Some(now),
                    payload |-> r.payload]
       IN IF accepted
          THEN stored' = LogAdd(stored, i, data)
               /\ req' = [req EXCEPT ![i] = Answer(r, 200, r.count)]
          ELSE stored' = stored
               /\ req' = [req EXCEPT ![i] = Answer(r, 500, 0)]
    /\ UNCHANGED <<now, cache, calls, keyTtl, lists, mq>>
    /\ UNCHANGED <<jwtVars, egressVars, healthVars, codecVars, builderVars>>

\* process_basic_message up to the push of the id record
process_basic_message(r, i, message, t) ==
    LET aircraft_type == AircraftTypeFrom(message.ua_type)
        identifier == Utf8Str(Trim(message.uas_id))
        jwt_identifier == Utf8Str(r.sub)
        id_item == [kind |-> "AircraftId", rid |-> i,
                    identifier |-> IF message.id_type \in {"UtmAssigned", "SpecificSession"}
                                   THEN Some(jwt_identifier) ELSE Some(identifier),
                    session_id |-> IF message.id_type \in {"UtmAssigned", "SpecificSession"}
                                   THEN Some(identifier) ELSE None,
                    aircraft_type |-> aircraft_type,
                    timestamp_network |-> t, timestamp_asset |-> None]
    IN IF ~ValidUtf8(message.uas_id) THEN Answer(r, 400, 0)
       ELSE [r EXCEPT !.pc = "push_id", !.item = <<id_item>>]

\* process_location_message up to the push of the position record
process_location_message(r, i, message, t) ==
    LET altitude == decode_altitude_netrid(message)
        speed == decode_speed(message)
        vertical == decode_vertical_speed_netrid(message)
        ts == decode_timestamp(message.timestamp, t)
        timestamp_asset == IF ts.ok THEN Some(ts.v) ELSE None
        identifier == Utf8Str(r.sub)
    IN IF ~altitude.ok THEN Answer(r, 400, 0)
       ELSE IF ~speed.ok THEN Answer(r, 400, 0)
       ELSE IF ~vertical.ok THEN Answer(r, 400, 0)
       ELSE [r EXCEPT !.pc = "push_position",
                      !.item = <<[kind |-> "AircraftPosition", rid |-> i,
                                  identifier |-> identifier,
                                  latitude |-> message.latitude,
                                  longitude |-> message.longitude,
                                  altitude |-> altitude.v,
                                  timestamp_network |-> t,
                                  timestamp_asset |-> timestamp_asset],
                                 [kind |-> "AircraftVelocity", rid |-> i,
                                  identifier |-> identifier,
                                  velocity_vertical |-> vertical.v,
                                  velocity_horizontal_ground |-> speed.v,
                                  track_angle |-> decode_direction(message),
                                  timestamp_asset |-> timestamp_asset,
                                  timestamp_network |-> t]>>]

\* network_remote_id(): the match on the message type
netrid_decode(r, i, frame, t) ==
    IF frame.header.message_type = "Basic"
    THEN LET msg == BasicUnpack(frame.message) IN
         IF ~msg.ok THEN Answer(r, 400, 0) ELSE process_basic_message(r, i, msg.v, t)
    ELSE IF frame.header.message_type = "Location"
    THEN LET msg == LocationUnpack(frame.message) IN
         IF ~msg.ok THEN Answer(r, 400, 0) ELSE process_location_message(r, i, msg.v, t)
    ELSE Answer(r, 400, 0)

\* network_remote_id() entered with the claim's sub, up to the first push:
\* the request r0 (the i-th) after it, and the cache
netrid_entry(r0, i, conn) ==
    LET payload == r0.payload
        frame == FrameUnpack(payload)
        key == bytes_to_key(payload)
        inc == increment(cache, NetridFolder, key, CACHE_EXPIRE_MS_NETRID, now, conn)
        g == Gate(r0, inc, Absent(cache, FolderKey(NetridFolder, key), now))
    IN IF Len(payload) # REMOTE_ID_PACKET_LENGTH
       THEN [r |-> Answer(r0, 400, 0), cache |-> cache]
       ELSE IF ~frame.ok
       THEN [r |-> Answer(r0, 400, 0), cache |-> cache]
       ELSE IF frame.v.header.message_type = "Basic"
       THEN [r |-> netrid_decode([r0 EXCEPT !.count = 1], i, frame.v, now), cache |-> cache]
       ELSE IF ~inc.res.ok
       THEN [r |-> Answer(Faulted(r0, TRUE), 500, 0), cache |-> inc.cache]
       ELSE [r |-> IF g.next THEN netrid_decode(g.r, i, frame.v, now) ELSE g.r,
             cache |-> inc.cache]

\* a new request enters network_remote_id()
network_remote_id(payload, sub, conn) ==
    /\ Len(req) < MaxReq
    /\ LET e == netrid_entry(NewRequest("netrid", payload, sub, now), Len(req) + 1, conn)
       IN req' = Append(req, e.r) /\ cache' = e.cache
    /\ UNCHANGED <<now, calls, keyTtl, lists, mq, stored>>

\* POST /telemetry/netrid of a request the auth layer let through with the
\* claim's sub
NetridBegin(payload, sub, conn) ==
    /\ network_remote_id(payload, sub, conn)
    /\ UNCHANGED <<jwtVars, egressVars, healthVars, codecVars, builderVars>>

\* process_basic_message: the push of the id record
NetridPushId(i, conn) ==
    /\ req[i].ep = "netrid" /\ req[i].pc = "push_id"
    /\ LET r == Faulted(req[i], conn # "ok")
           p == push(lists, r.item[1], REDIS_KEY_AIRCRAFT_ID, conn)
       IN /\ lists' = p.lists
          /\ req' = [req EXCEPT ![i] = IF ~p.res.ok THEN Answer(r, 500, 0)
                                       ELSE [r EXCEPT !.pc = "publish_id"]]
    /\ UNCHANGED <<now, cache, calls, keyTtl, mq, stored>>
    /\ UNCHANGED <<jwtVars, egressVars, healthVars, codecVars, builderVars>>

\* process_basic_message: the publish, its result dropped, and the response
NetridPublishId(i, accepted) ==
    /\ req[i].ep = "netrid" /\ req[i].pc = "publish_id"
    /\ mq' = IF accepted
             THEN LogAdd(mq, i, [routing_key |-> ROUTING_KEY_NETRID_ID, msg |-> req[i].item[1]])
             ELSE mq
    /\ req' = [req EXCEPT ![i] = Answer(Faulted(@, ~accepted), 200, @.count)]
    /\ UNCHANGED <<now, cache, calls, keyTtl, lists, stored>>
    /\ UNCHANGED <<jwtVars, egressVars, healthVars, codecVars, builderVars>>

\* process_location_message: the push of the position record
NetridPushPosition(i, conn) ==
    /\ req[i].ep = "netrid" /\ req[i].pc = "push_position"
    /\ LET r == Faulted(req[i], conn # "ok")
           p == push(lists, r.item[1], REDIS_KEY_AIRCRAFT_POSITION, conn)
       IN /\ lists' = p.lists
          /\ req' = [req EXCEPT ![i] = IF ~p.res.ok THEN Answer(r, 500, 0)
                                       ELSE [r EXCEPT !.pc = "push_velocity"]]
    /\ UNCHANGED <<now, cache, calls, keyTtl, mq, stored>>
    /\ UNCHANGED <<jwtVars, egressVars, healthVars, codecVars, builderVars>>

\* process_location_message: the push of the velocity record, its result dropped
NetridPushVelocity(i, conn) ==
    /\ req[i].ep = "netrid" /\ req[i].pc = "push_velocity"
    /\ lists' = push(lists, req[i].item[2], REDIS_KEY_AIRCRAFT_VELOCITY, conn).lists
    /\ req' = [req EXCEPT ![i] = [Faulted(@, conn # "ok") EXCEPT !.pc = "publish_position"]]
    /\ UNCHANGED <<now, cache, calls, keyTtl, mq, stored>>
    /\ UNCHANGED <<jwtVars, egressVars, healthVars, codecVars, builderVars>>

\* process_location_message: the publish of the position record
NetridPublishPosition(i, accepted) ==
    /\ req[i].ep = "netrid" /\ req[i].pc = "publish_position"
    /\ mq' = IF accepted
             THEN LogAdd(mq, i, [routing_key |-> ROUTING_KEY_NETRID_POSITION,
                                 msg |-> req[i].item[1]])
             ELSE mq
    /\ req' = [req EXCEPT ![i] = [Faulted(@, ~accepted) EXCEPT !.pc = "publish_velocity"]]
    /\ UNCHANGED <<now, cache, calls, keyTtl, lists, stored>>
    /\ UNCHANGED <<jwtVars, egressVars, healthVars, codecVars, builderVars>>

\* process_location_message: the publish of the velocity record, and the response
NetridPublishVelocity(i, accepted) ==
    /\ req[i].ep = "netrid" /\ req[i].pc = "publish_velocity"
    /\ mq' = IF accepted
             THEN LogAdd(mq, i, [routing_key |-> ROUTING_KEY_NETRID_VELOCITY,
                                 msg |-> req[i].item[2]])
             ELSE mq
    /\ req' = [req EXCEPT ![i] = Answer(Faulted(@, ~accepted), 200, @.count)]
    /\ UNCHANGED <<now, cache, calls, keyTtl, lists, stored>>
    /\ UNCHANGED <<jwtVars, egressVars, healthVars, codecVars, builderVars>>

\* POST /telemetry/aircraft/adsb.  The dedup key is the payload as text, so a
\* payload that gets past from_utf8 never starts with a DF 17 byte (0x88..0x8f
\* are continuation bytes) and the handler always returns at or before the
\* downlink-format test; a request that got further would stop at "aircraft_me"
AircraftAdsb(payload, conn) ==
    /\ Len(req) < MaxReq
    /\ LET r0 == NewRequest("aircraft", payload, <<>>, now)
           key == Utf8Str(payload)
           inc == pool_increment(cache, AircraftFolder, key,
                                 CACHE_EXPIRE_MS_AIRCRAFT_ADSB, now, conn)
           g == Gate(r0, inc, Absent(cache, FolderKey(AircraftFolder, key), now))
           frame == AdsbFrame(payload)
       IN IF ~ValidUtf8(payload)
          THEN req' = Append(req, Answer(r0, 400, 0)) /\ cache' = cache
          ELSE IF ~inc.res.ok
          THEN req' = Append(req, Answer(Faulted(r0, TRUE), 500, 0)) /\ cache' = inc.cache
          ELSE /\ cache' = inc.cache
               /\ req' = Append(req,
                     IF ~g.next THEN g.r
                     ELSE IF Len(payload) # ADSB_SIZE_BYTES THEN Answer(g.r, 400, 0)
                     ELSE IF ~frame.ok THEN Answer(g.r, 400, 0)
                     ELSE IF frame.v.df # "ADSB" THEN Answer(g.r, 400, 0)
                     ELSE [g.r EXCEPT !.pc = "aircraft_me"])
    /\ UNCHANGED <<now, calls, keyTtl, lists, mq, stored>>
    /\ UNCHANGED <<jwtVars, egressVars, healthVars, codecVars, builderVars>>

\* POST /telemetry/mavlink/adsb: the body as text is counted in the pool
\* /telemetry/aircraft/adsb counts in, and the count is the answer
MavlinkAdsb(payload, conn) ==
    /\ Len(req) < MaxReq
    /\ LET r0 == NewRequest("mavlink", payload, <<>>, now)
           key == Utf8Str(payload)
           inc == pool_increment(cache, AircraftFolder, key,
                                 CACHE_EXPIRE_MS_MAVLINK_ADSB, now, conn)
           g == Gate(r0, inc, Absent(cache, FolderKey(AircraftFolder, key), now))
       IN IF Len(payload) > MAVLINK_PKT_MAX_SIZE_BYTES
          THEN req' = Append(req, Answer(r0, 400, 0)) /\ cache' = cache
          ELSE IF ~ValidUtf8(payload)
          THEN req' = Append(req, Answer(r0, 400, 0)) /\ cache' = cache
          ELSE IF ~inc.res.ok
          THEN req' = Append(req, Answer(Faulted(r0, TRUE), 500, 0)) /\ cache' = inc.cache
          ELSE /\ cache' = inc.cache
               /\ req' = Append(req, IF ~g.next THEN g.r ELSE Answer(g.r, 200, inc.res.v))
    /\ UNCHANGED <<now, calls, keyTtl, lists, mq, stored>>
    /\ UNCHANGED <<jwtVars, egressVars, healthVars, codecVars, builderVars>>

\* the clock advances; expired keys leave the cache
Tick(d) ==
    /\ now + d <= MaxTime
    /\ now' = now + d
    /\ cache' = Purge(cache, now + d)
    /\ UNCHANGED <<calls, keyTtl, req, lists, mq, stored>>
    /\ UNCHANGED <<jwtVars, egressVars, healthVars, codecVars, builderVars>>

-----------------------------------------------------------------------------
(* The requests the clients send *)

\* airborne position of 40621D, even and odd CPR format
AdsbEven == <<141, 64, 98, 29, 88, 195, 130, 214, 144, 200, 172, 40, 99, 167>>
AdsbOdd == <<141, 64, 98, 29, 88, 195, 134, 67, 92, 196, 18, 105, 42, 214>>
\* identification of 4840D6
AdsbIdent == <<141, 72, 64, 214, 32, 44, 195, 113, 195, 44, 224, 87, 96, 152>>
\* airborne velocity, ground speed (subtype 1) and airspeed (subtype 3)
AdsbGroundSpeed == <<141, 72, 80, 32, 153, 68, 9, 148, 8, 56, 23, 91, 40, 79>>
AdsbAirspeed == <<141, 160, 95, 33, 155, 6, 182, 175, 24, 148, 0, 203, 195, 63>>
\* DF 11, DF 1 (not a downlink format), DF 17 with type code 0
AdsbAllCall == <<93, 72, 64, 214, 32, 44, 195, 113, 195, 44, 224, 87, 96, 152>>
AdsbNoFormat == <<8, 0, 0, 0, 0, 0, 0, 0, 0, 0, 0, 0, 0, 0>>
AdsbTypeZero == <<141, 72, 64, 214, 0, 0, 0, 0, 0, 0, 0, 0, 0, 0>>
AdsbShort == <<141, 72, 64>>

AdsbPayloads ==
    {AdsbEven, AdsbOdd, AdsbIdent, AdsbGroundSpeed, AdsbAirspeed, AdsbAllCall,
     AdsbNoFormat, AdsbTypeZero, AdsbShort}

Blanks(n) == [k \in 1..n |-> 32]
Zeros(n) == [k \in 1..n |-> 0]

\* Basic: serial number "N1" of a rotorcraft
NetridBasic == <<2, 18, 78, 49>> \o Blanks(18) \o Zeros(3)
\* Basic: UTM-assigned id "S1" of a rotorcraft
NetridBasicSession == <<2, 50, 83, 49>> \o Blanks(18) \o Zeros(3)
\* Location: airborne, track 90, 10 m/s, 52.3 N 4.9 E, 100 m
NetridLocation ==
    <<18, 32, 90, 40, 4, 192, 90, 44, 31, 64, 174, 235, 2, 152, 8, 152, 8, 0, 0, 0, 0,
      10, 0, 0, 0>>
\* Authentication, a type nibble without a variant, and a short body
NetridAuthentication == <<34>> \o Zeros(24)
NetridNoType == <<98>> \o Zeros(24)
NetridShort == <<2, 18>>

NetridPayloads ==
    {NetridBasic, NetridBasicSession, NetridLocation, NetridAuthentication, NetridNoType, NetridShort}

\* the sub of the caller's token
Subs == {<<117, 49>>}

\* bodies sent to /telemetry/aircraft/adsb: 3 and 14 digits, and a DF 17 frame
AircraftShort == <<48, 49, 50>>
AircraftDigits == [k \in 1..14 |-> 48]

AircraftPayloads == {AircraftShort, AircraftDigits, AdsbEven}

\* bodies sent to /telemetry/mavlink/adsb: the 3 digits, a DF 17 frame, and
\* 281 digits
MavlinkLong == [k \in 1..281 |-> 48]

MavlinkPayloads == {AircraftShort, AdsbEven, MavlinkLong}

IngestTickSteps == {10000}

Init ==
    /\ now = 0
    /\ cache = EmptyFn
    /\ calls = EmptyFn
    /\ keyTtl = EmptyFn
    /\ IngestIdle
    /\ JwtIdle
    /\ HealthIdle
    /\ BuilderIdle
    /\ CodecIdle
    /\ EgressIdle

Next ==
    \/ \E payload \in AdsbPayloads, conn \in ConnOutcomes : AdsbBegin(payload, conn)
    \/ \E i \in DOMAIN req, conn \in ConnOutcomes, reply \in MultipleSetReplies :
          AdsbMultipleSet(i, conn, reply)
    \/ \E i \in DOMAIN req, conn \in ConnOutcomes : AdsbMultipleGet(i, conn)
    \/ \E i \in DOMAIN req, conn \in ConnOutcomes : AdsbGisPush(i, conn)
    \/ \E i \in DOMAIN req, accepted \in BOOLEAN : AdsbPublish(i, accepted)
    \/ \E i \in DOMAIN req, accepted \in BOOLEAN : AdsbInsert(i, accepted)
    \/ \E payload \in NetridPayloads, sub \in Subs, conn \in ConnOutcomes :
          NetridBegin(payload, sub, conn)
    \/ \E i \in DOMAIN req, conn \in ConnOutcomes : NetridPushId(i, conn)
    \/ \E i \in DOMAIN req, accepted \in BOOLEAN : NetridPublishId(i, accepted)
    \/ \E i \in DOMAIN req, conn \in ConnOutcomes : NetridPushPosition(i, conn)
    \/ \E i \in DOMAIN req, conn \in ConnOutcomes : NetridPushVelocity(i, conn)
    \/ \E i \in DOMAIN req, accepted \in BOOLEAN : NetridPublishPosition(i, accepted)
    \/ \E i \in DOMAIN req, accepted \in BOOLEAN : NetridPublishVelocity(i, accepted)
    \/ \E payload \in AircraftPayloads, conn \in ConnOutcomes : AircraftAdsb(payload, conn)
    \/ \E payload \in MavlinkPayloads, conn \in ConnOutcomes : MavlinkAdsb(payload, conn)
    \/ \E d \in IngestTickSteps : Tick(d)

Spec == Init /\ [][Next]_vars

\* no handler is left at its entry, and /telemetry/aircraft/adsb never gets
\* past its downlink-format test
PcOK ==
    \A i \in DOMAIN req : req[i].pc # "aircraft_me" /\ req[i].pc # "start"

-----------------------------------------------------------------------------
(* What a request has done *)

Done(i) == req[i].pc = "done"

\* the records request i has on queue k
ItemsBy(i, k) ==
    IF k \in DOMAIN lists THEN SelectSeq(lists[k], LAMBDA it : it.rid = i) ELSE <<>>

NoneEnqueuedBy(i) == \A k \in DOMAIN lists : ItemsBy(i, k) = <<>>

PublishedBy(i) == IF i \in DOMAIN mq THEN mq[i] ELSE <<>>

StoredBy(i) == IF i \in DOMAIN stored THEN stored[i] ELSE <<>>

NoEffects(i) ==
    /\ ~req[i].cprset
    /\ NoneEnqueuedBy(i)
    /\ PublishedBy(i) = <<>>
    /\ StoredBy(i) = <<>>

\* request i reached TelemetryPool::increment on its dedup key
Counted(i) == req[i].ep \in {"adsb", "netrid"} /\ req[i].incr

\* i and j were counted on the same dedup entry: same key, and the entry did
\* not expire between them
SameEntry(i, j) ==
    /\ i < j /\ Counted(i) /\ Counted(j)
    /\ req[i].ep = req[j].ep /\ req[i].payload = req[j].payload
    /\ \A m \in (i + 1)..j :
          (Counted(m) /\ req[m].ep = req[i].ep /\ req[m].payload = req[i].payload)
              => ~req[m].fresh

\* C3: requests counted on one live dedup entry get pairwise distinct counts;
\* the request that created the entry, and no other, gets 1 and goes on to
\* decode; every other one is answered 200 with its count and has done nothing
\* else, whatever the interleaving of the requests' steps.
C3_DistinctCounts ==
    /\ \A i, j \in DOMAIN req :
          SameEntry(i, j) => req[i].count # req[j].count /\ req[j].count # 1
    /\ \A i \in DOMAIN req : Counted(i) =>
          /\ req[i].fresh <=> req[i].count = 1
          /\ req[i].count = 1 => req[i].gate
          /\ req[i].count # 1 =>
                /\ ~req[i].gate /\ Done(i)
                /\ req[i].status = 200 /\ req[i].body = req[i].count
                /\ NoEffects(i)

\* a repeat was counted 2 and answered while the request that got 1 was still
\* in flight
C3_Witness ==
    \E i, j \in DOMAIN req :
        /\ SameEntry(i, j)
        /\ req[i].count = 1 /\ ~Done(i)
        /\ req[j].count = 2 /\ Done(j)

\* C4: a request whose dedup count is greater than 1 is answered 200 with that
\* count and has parsed, cached, enqueued, published and stored nothing.
C4_RepeatOnlyCounted ==
    \A i \in DOMAIN req :
        (req[i].ep \in {"adsb", "netrid"} /\ req[i].count > 1) =>
            /\ Done(i) /\ req[i].status = 200 /\ req[i].body = req[i].count
            /\ ~req[i].gate
            /\ NoEffects(i)

\* a repeat of an identification frame or of a Location frame has been
\* answered 200 with count 2
C4_Witness ==
    \E i \in DOMAIN req :
        /\ req[i].count = 2 /\ req[i].status = 200 /\ req[i].body = 2
        /\ req[i].payload \in {AdsbIdent, NetridLocation}

FrameSize(ep) == IF ep = "netrid" THEN REMOTE_ID_PACKET_LENGTH ELSE ADSB_SIZE_BYTES

\* C5: a request whose body has not the frame size of its endpoint is answered
\* 400 and no dedup counter was touched and nothing cached, enqueued, published
\* or stored for it.
C5_LengthCheckedFirst ==
    \A i \in DOMAIN req :
        (Done(i) /\ Len(req[i].payload) # FrameSize(req[i].ep)) =>
            /\ req[i].status = 400
            /\ ~req[i].incr
            /\ NoEffects(i)

\* a 14-byte frame adsb() has no decoding for
MalformedAdsb(payload) ==
    LET frame == AdsbFrame(payload) IN
    \/ ~frame.ok
    \/ frame.v.df # "ADSB"
    \/ frame.v.me.me = "Other"
    \/ frame.v.me.me = "AirborneVelocity" /\ frame.v.me.sub_type # "GroundSpeedDecoding"

\* C6: a malformed 14-byte frame posted to /telemetry/adsb is answered 400, the
\* first time and every time it is repeated (no dependency failing).
C6_MalformedAdsbRejected ==
    \A i \in DOMAIN req :
        (/\ req[i].ep = "adsb" /\ Done(i) /\ ~req[i].fault
         /\ Len(req[i].payload) = ADSB_SIZE_BYTES
         /\ MalformedAdsb(req[i].payload)) => req[i].status = 400

\* a 25-byte frame whose message type is neither Basic nor Location
UnsupportedNetrid(payload) ==
    /\ Len(payload) = REMOTE_ID_PACKET_LENGTH
    /\ FrameUnpack(payload).ok
    /\ FrameUnpack(payload).v.header.message_type \notin {"Basic", "Location"}

\* C7: a Remote-ID frame whose type is neither Basic nor Location is answered
\* 400 and nothing is enqueued or published for it, the first time and every
\* time it is repeated (no dependency failing).
C7_UnsupportedNetridRejected ==
    \A i \in DOMAIN req :
        (/\ req[i].ep = "netrid" /\ Done(i) /\ ~req[i].fault
         /\ UnsupportedNetrid(req[i].payload)) =>
            /\ req[i].status = 400
            /\ NoneEnqueuedBy(i) /\ PublishedBy(i) = <<>>

\* C8: a first-of-kind ADS-B request whose record was enqueued is answered 200
\* with its count, whether or not the publish and the insert succeed.
C8_FanOutFailureIgnored ==
    \A i \in DOMAIN req :
        (/\ req[i].ep = "adsb" /\ Done(i)
         /\ req[i].count = 1 /\ ~NoneEnqueuedBy(i)) =>
            req[i].status = 200 /\ req[i].body = 1

\* two airborne-position frames of one aircraft with opposite CPR format
OppositeParity(p, q) ==
    /\ Len(p) = ADSB_SIZE_BYTES /\ Len(q) = ADSB_SIZE_BYTES
    /\ AdsbFrame(p).ok /\ AdsbFrame(q).ok
    /\ AdsbFrame(p).v.df = "ADSB" /\ AdsbFrame(q).v.df = "ADSB"
    /\ AdsbFrame(p).v.icao = AdsbFrame(q).v.icao
    /\ AdsbFrame(p).v.me.me = "AirbornePosition"
    /\ AdsbFrame(q).v.me.me = "AirbornePosition"
    /\ AdsbFrame(p).v.me.odd_flag # AdsbFrame(q).v.me.odd_flag

\* C9: of two opposite-parity position frames of one aircraft that arrive
\* within 1 s, both first sightings and no dependency failing, both are
\* answered 200 with 1, the first enqueues nothing and the second enqueues
\* exactly one AircraftPosition.
C9_CprPairYieldsPosition ==
    \A i, j \in DOMAIN req :
        (/\ i < j /\ req[i].ep = "adsb" /\ req[j].ep = "adsb"
         /\ OppositeParity(req[i].payload, req[j].payload)
         /\ req[j].t0 - req[i].t0 < CACHE_EXPIRE_MS_AIRCRAFT_CPR
         /\ Done(i) /\ Done(j) /\ ~req[i].fault /\ ~req[j].fault
         /\ req[i].fresh /\ req[j].fresh) =>
            /\ req[i].status = 200 /\ req[i].body = 1
            /\ req[j].status = 200 /\ req[j].body = 1
            /\ NoneEnqueuedBy(i)
            /\ Len(ItemsBy(j, REDIS_KEY_AIRCRAFT_POSITION)) = 1
            /\ ItemsBy(j, REDIS_KEY_AIRCRAFT_ID) = <<>>
            /\ ItemsBy(j, REDIS_KEY_AIRCRAFT_VELOCITY) = <<>>

\* an authorised request carrying a Basic frame that unpacks and whose
\* identifier is text
ValidBasic(i) ==
    /\ req[i].ep = "netrid"
    /\ Len(req[i].payload) = REMOTE_ID_PACKET_LENGTH
    /\ FrameUnpack(req[i].payload).ok
    /\ FrameUnpack(req[i].payload).v.header.message_type = "Basic"
    /\ BasicUnpack(FrameUnpack(req[i].payload).v.message).ok
    /\ ValidUtf8(BasicUnpack(FrameUnpack(req[i].payload).v.message).v.uas_id)

\* request i has exactly one record on the queues: an AircraftId of the type
\* its frame's ua_type maps to
OneAircraftId(i) ==
    LET ids == ItemsBy(i, REDIS_KEY_AIRCRAFT_ID)
        ua_type == BasicUnpack(FrameUnpack(req[i].payload).v.message).v.ua_type
    IN /\ Len(ids) = 1
       /\ ids[1].kind = "AircraftId"
       /\ ids[1].aircraft_type = AircraftTypeFrom(ua_type)
       /\ ItemsBy(i, REDIS_KEY_AIRCRAFT_POSITION) = <<>>
       /\ ItemsBy(i, REDIS_KEY_AIRCRAFT_VELOCITY) = <<>>

\* C10 as stated: every valid Basic submission touches no dedup counter,
\* enqueues exactly one AircraftId of the mapped type and is answered 200
\* with 1.
C10_BasicAlwaysEnqueued ==
    \A i \in DOMAIN req :
        (ValidBasic(i) /\ Done(i)) =>
            /\ ~req[i].incr
            /\ req[i].status = 200 /\ req[i].body = 1
            /\ OneAircraftId(i)

\* C10: every valid Basic submission touches no dedup counter; it enqueues
\* exactly one AircraftId of the mapped type and is answered 200 with 1,
\* unless the push to the id queue fails: then it is answered 500 and has
\* enqueued and published nothing.
C10_BasicEnqueuedUnlessPushFails ==
    \A i \in DOMAIN req :
        (ValidBasic(i) /\ Done(i)) =>
            /\ ~req[i].incr
            /\ \/ req[i].status = 200 /\ req[i].body = 1 /\ OneAircraftId(i)
               \/ /\ req[i].status = 500 /\ req[i].fault
                  /\ NoneEnqueuedBy(i) /\ PublishedBy(i) = <<>>

\* the same Basic frame was submitted twice at one instant and each submission
\* was answered 200 with 1 and has its own AircraftId on the queue
C10_Witness ==
    \E i, j \in DOMAIN req :
        /\ i < j /\ ValidBasic(i) /\ ValidBasic(j)
        /\ req[i].payload = req[j].payload /\ req[i].t0 = req[j].t0
        /\ Done(i) /\ req[i].status = 200 /\ req[i].body = 1 /\ OneAircraftId(i)
        /\ Done(j) /\ req[j].status = 200 /\ req[j].body = 1 /\ OneAircraftId(j)
        /\ cache = EmptyFn

-----------------------------------------------------------------------------
(* The identity a Remote-ID record carries *)

\* the id_type of the Basic frame request i carried
BasicIdType(i) == BasicUnpack(FrameUnpack(req[i].payload).v.message).v.id_type

SessionIdTypes == {"UtmAssigned", "SpecificSession"}

\* the AircraftId records /telemetry/netrid requests have on the id queue
NetridIds(i) ==
    IF req[i].ep = "netrid" THEN ItemsBy(i, REDIS_KEY_AIRCRAFT_ID) ELSE <<>>

\* C11 as stated: every AircraftId made from a Remote-ID Basic message has
\* exactly one of identifier and session_id populated: session_id alone when
\* id_type is UtmAssigned or SpecificSession, identifier alone otherwise.
C11_ExactlyOneIdPopulated ==
    \A i \in DOMAIN req : \A n \in DOMAIN NetridIds(i) :
        LET it == NetridIds(i)[n] IN
        IF BasicIdType(i) \in SessionIdTypes
        THEN it.session_id # None /\ it.identifier = None
        ELSE it.identifier # None /\ it.session_id = None

\* the records /telemetry/netrid request i has on the three queues
NetridRecords(i) ==
    IF req[i].ep = "netrid"
    THEN ItemsBy(i, REDIS_KEY_AIRCRAFT_ID) \o ItemsBy(i, REDIS_KEY_AIRCRAFT_POSITION)
         \o ItemsBy(i, REDIS_KEY_AIRCRAFT_VELOCITY)
    ELSE <<>>

\* the identifier field of a record: Option<String> in AircraftId, String in
\* the other two
IdentifierOf(it) == IF it.kind = "AircraftId" THEN it.identifier ELSE Some(it.identifier)

\* C12 as stated: every record enqueued by /telemetry/netrid carries as its
\* identifier the sub of the Claim that authenticated the request.
C12_IdentifierIsClaimSub ==
    \A i \in DOMAIN req : \A n \in DOMAIN NetridRecords(i) :
        IdentifierOf(NetridRecords(i)[n]) = Some(Utf8Str(req[i].sub))

-----------------------------------------------------------------------------
(* The token service (rest::api::jwt) *)

JWT_EXPIRE_SECONDS == 360

\* jsonwebtoken's Validation::default(): HS256, exp required and validated,
\* with a leeway of 60 seconds on the expiry
VALIDATION_LEEWAY_SECONDS == 60

\* DateTime::timestamp() of the instant t (ms): whole seconds since the epoch
timestamp(t) == t \div 1000

\* HMAC-SHA256 of the signed part under a key, as an injective function of both
Sign(key, alg, claims) == <<key, alg, claims.sub, claims.iat, claims.exp>>

\* jsonwebtoken::encode: header, claims and signature
encode(alg, claims, key) ==
    [form |-> "jwt", alg |-> alg, claims |-> claims, sig |-> Sign(key, alg, claims)]

\* a string that is not three base64 parts
GarbageToken ==
    [form |-> "text", alg |-> "", claims |-> [sub |-> <<>>, iat |-> 0, exp |-> 0], sig |-> <<>>]

\* Claim::create; t1 and t2 are the instants of its two reads of the clock.
\* Utc::now() panics when the system clock is before the Unix epoch, so the
\* call then yields no Result; after it neither usize::try_from can fail
Claim_create(sub, t1, t2, secret) ==
    LET iat == timestamp(t1)
        exp == timestamp(t2 + JWT_EXPIRE_SECONDS * 1000)
        claims == [sub |-> sub, iat |-> iat, exp |-> exp]
    IN IF t1 < 0 \/ t2 < 0 THEN Err("panic")
       ELSE IF iat < 0 THEN Err(500)
       ELSE IF exp < 0 THEN Err(500)
       ELSE IF secret = <<>> THEN Err(500)
       ELSE Ok(encode("HS256", claims, secret[1]))

\* Claim::decode at instant t: the token's form, algorithm and signature,
\* then exp against the clock less the leeway
Claim_decode(token, t, secret) ==
    IF secret = <<>> THEN Err(500)
    ELSE IF token.form # "jwt" THEN Err(401)
    ELSE IF token.alg # "HS256" THEN Err(401)
    ELSE IF token.sig # Sign(secret[1], token.alg, token.claims) THEN Err(401)
    ELSE IF token.claims.exp < timestamp(t) - VALIDATION_LEEWAY_SECONDS THEN Err(401)
    ELSE Ok(token.claims)

\* what a request carries: the cookie named "token" and the Authorization
\* header, each an Option.  A header value is visible ASCII or not (to_str),
\* and is a scheme prefix followed by the rest
NoCred == [cookie |-> None, header |-> None]
Cookie(token) == [cookie |-> Some(token), header |-> None]
Header(visible, prefix, token) ==
    [cookie |-> None,
     header |-> Some([visible |-> visible, prefix |-> prefix, rest |-> token])]
CookieAndHeader(c, h) ==
    [cookie |-> Some(c),
     header |-> Some([visible |-> TRUE, prefix |-> "Bearer ", rest |-> h])]

\* a lookup that reads the Authorization header before the cookie
get_token_header_first(cred) ==
    IF cred.header # None /\ cred.header[1].visible /\ cred.header[1].prefix = "Bearer "
    THEN Ok(cred.header[1].rest)
    ELSE IF cred.cookie # None THEN Ok(cred.cookie[1])
    ELSE Err(401)

\* get_token_from_cookie_jar
get_token_from_cookie_jar(cred) ==
    IF cred.cookie # None THEN Ok(cred.cookie[1])
    ELSE IF cred.header = None THEN Err(401)
    ELSE IF ~cred.header[1].visible THEN Err(401)
    ELSE IF cred.header[1].prefix = "Bearer " THEN Ok(cred.header[1].rest)
    ELSE Err(401)

\* auth: the claim the request is let through with, or 401
auth(cred, t, secret) ==
    LET token == get_token_from_cookie_jar(cred)
        claim == IF token.ok THEN Claim_decode(token.v, t, secret) ELSE Err(401)
    IN IF ~token.ok THEN Err(401)
       ELSE IF ~claim.ok THEN Err(401)
       ELSE Ok(claim.v)

\* a login that signs the token for a fixed subject
login_fixed_sub(identifier, t1, t2, secret) ==
    IF ~ValidUtf8(identifier) THEN Err(400)
    ELSE IF identifier = <<>> THEN Err(400)
    ELSE Claim_create(<<117>>, t1, t2, secret)

\* login: Ok(token) is 200 with the token as body
login(identifier, t1, t2, secret) ==
    IF ~ValidUtf8(identifier) THEN Err(400)
    ELSE IF identifier = <<>> THEN Err(400)
    ELSE Claim_create(identifier, t1, t2, secret)

-----------------------------------------------------------------------------
(* Token specification: login, the auth layer in front of /telemetry/netrid,
   and the clock *)

MaxLogins == 1
MaxAuthReq == 1

\* a key the process secret is not
ForgedSecret == "k0"

\* bodies sent to /telemetry/login: none, "u1", and a byte that is not UTF-8
LoginBodies == {<<>>, <<117, 49>>, <<255>>}

\* time that passes between the two clock reads of Claim::create, ms
CreateDelays == {0, 1}

\* the instants the environment moves the clock to, ms
JwtInstants == {999, 1000, 361000, 421000, 422000}

\* GET /telemetry/login
JwtLogin(body, d) ==
    /\ Len(logins) < MaxLogins
    /\ LET res == login(body, now, now + d, jwt_secret)
       IN logins' = Append(logins,
                       [body |-> body, t1 |-> now, t2 |-> now + d,
                        status |-> IF res.ok THEN 200 ELSE res.e,
                        token |-> IF res.ok THEN res.v ELSE GarbageToken])
    /\ now' = now + d
    /\ cache' = Purge(cache, now + d)
    /\ UNCHANGED <<calls, keyTtl, req, lists, mq, stored, jwt_secret, creds>>
    /\ UNCHANGED <<egressVars, healthVars, codecVars, builderVars>>

\* the tokens login has handed out
Issued == {logins[j].token : j \in {k \in DOMAIN logins : logins[k].status = 200}}

\* what a client can present without the process secret: an issued token, an
\* issued token with its sub or its exp rewritten, a token signed with another
\* key, and text that is no token
Presentable(t) ==
    Issued
    \cup {[tk EXCEPT !.claims.sub = <<120>>] : tk \in Issued}
    \cup {[tk EXCEPT !.claims.exp = @ + 1000] : tk \in Issued}
    \cup {encode("HS256", [sub |-> <<117, 49>>, iat |-> timestamp(t),
                           exp |-> timestamp(t) + JWT_EXPIRE_SECONDS], ForgedSecret),
          GarbageToken}

\* the ways a request can carry them
CredsOf(tokens) ==
    {NoCred}
    \cup {Cookie(tk) : tk \in tokens}
    \cup {Header(TRUE, "Bearer ", tk) : tk \in tokens}
    \cup {Header(TRUE, "Basic ", tk) : tk \in tokens}
    \cup {Header(FALSE, "Bearer ", tk) : tk \in tokens}
    \cup {CookieAndHeader(GarbageToken, tk) : tk \in tokens}
    \cup {CookieAndHeader(tk, GarbageToken) : tk \in tokens}

\* POST /telemetry/netrid, the auth layer: the token is checked against the
\* clock, and the request is answered 401 or handed on (next.run) with the
\* claim; t0 is the instant of the check
NetridRequest(cred, payload) ==
    /\ Len(req) < MaxAuthReq
    /\ creds' = Append(creds, cred)
    /\ LET a == auth(cred, now, jwt_secret)
       IN req' = Append(req,
                   IF a.ok
                   THEN [NewRequest("netrid", payload, a.v.sub, now) EXCEPT !.pc = "authed"]
                   ELSE Answer(NewRequest("netrid", payload, <<>>, now), a.e, 0))
    /\ UNCHANGED <<now, cache, calls, keyTtl, lists, mq, stored>>
    /\ UNCHANGED <<jwt_secret, logins>>
    /\ UNCHANGED <<egressVars, healthVars, codecVars, builderVars>>

\* network_remote_id() of a request the auth layer let through, at the time
\* the handler gets to run
NetridServe(i, conn) ==
    /\ req[i].ep = "netrid" /\ req[i].pc = "authed"
    /\ LET e == netrid_entry([req[i] EXCEPT !.pc = "start"], i, conn)
       IN req' = [req EXCEPT ![i] = e.r] /\ cache' = e.cache
    /\ UNCHANGED <<now, calls, keyTtl, lists, mq, stored>>
    /\ UNCHANGED <<jwtVars, egressVars, healthVars, codecVars, builderVars>>

\* the clock is moved to a later instant; expired keys leave the cache
ClockTo(t) ==
    /\ t > now
    /\ now' = t
    /\ cache' = Purge(cache, t)
    /\ UNCHANGED <<calls, keyTtl, req, lists, mq, stored>>
    /\ UNCHANGED <<jwtVars, egressVars, healthVars, codecVars, builderVars>>

JwtPayloads == {NetridLocation, NetridBasic}
JwtConn == {"ok", "CouldNotConnect"}

InitJwt ==
    /\ now = 0
    /\ cache = EmptyFn
    /\ calls = EmptyFn
    /\ keyTtl = EmptyFn
    /\ IngestIdle
    /\ JwtIdle
    /\ HealthIdle
    /\ BuilderIdle
    /\ CodecIdle
    /\ EgressIdle

NextJwt ==
    \/ \E body \in LoginBodies, d \in CreateDelays : JwtLogin(body, d)
    \/ \E cred \in CredsOf(Presentable(now)), payload \in JwtPayloads :
          NetridRequest(cred, payload)
    \/ \E i \in DOMAIN req, conn \in JwtConn : NetridServe(i, conn)
    \/ \E i \in DOMAIN req, conn \in JwtConn : NetridPushId(i, conn)
    \/ \E i \in DOMAIN req, accepted \in BOOLEAN : NetridPublishId(i, accepted)
    \/ \E i \in DOMAIN req, conn \in JwtConn : NetridPushPosition(i, conn)
    \/ \E i \in DOMAIN req, conn \in JwtConn : NetridPushVelocity(i, conn)
    \/ \E i \in DOMAIN req, accepted \in BOOLEAN : NetridPublishPosition(i, accepted)
    \/ \E i \in DOMAIN req, accepted \in BOOLEAN : NetridPublishVelocity(i, accepted)
    \/ \E t \in JwtInstants : ClockTo(t)

SpecJwt == InitJwt /\ [][NextJwt]_vars

-----------------------------------------------------------------------------
(* What the token service lets through *)

\* the tokens a request carries where auth looks for them: the cookie, and
\* the rest of a visible Bearer header
Carried(cred) ==
    {cred.cookie[k] : k \in DOMAIN cred.cookie}
    \cup {cred.header[k].rest :
            k \in {m \in DOMAIN cred.header :
                     cred.header[m].visible /\ cred.header[m].prefix = "Bearer "}}

\* the token is a JWT signed HS256 with the process secret
Parseable(tk) ==
    /\ tk.form = "jwt" /\ tk.alg = "HS256"
    /\ jwt_secret # <<>> /\ tk.sig = Sign(jwt_secret[1], tk.alg, tk.claims)

\* the token's exp is in the past at instant t
Expired(tk, t) == tk.claims.exp < timestamp(t)

\* the auth layer turned request i away
Refused(i) == Done(i) /\ req[i].status = 401

\* C13 as stated: the handler body of /telemetry/netrid runs only for a
\* request carrying a token that decodes to a Claim under the process secret
\* (parseable and not expired); a request with no token, an unparseable token
\* or an expired token is answered 401 and has made no dedup increment, queue
\* push or broker publish.
C13_OnlyValidTokensAdmitted ==
    \A i \in DOMAIN req :
        LET carried == Carried(creds[i]) IN
        /\ ~Refused(i) => \E tk \in carried : Parseable(tk) /\ ~Expired(tk, req[i].t0)
        /\ (\A tk \in carried : ~Parseable(tk) \/ Expired(tk, req[i].t0))
               => Refused(i) /\ ~req[i].incr /\ NoEffects(i)

\* C14: with the secret set, login answers 400 for an empty body (and for a
\* body that is not text) and, for every non-empty identifier s, answers 200
\* with a token that decodes under the same secret to a Claim with sub = s.
C14_LoginMintsTokenForSub ==
    \A j \in DOMAIN logins :
        LET l == logins[j]
            claim == Claim_decode(l.token, l.t2, jwt_secret)
        IN /\ jwt_secret # <<>>
           /\ l.body = <<>> => l.status = 400
           /\ ~ValidUtf8(l.body) => l.status = 400
           /\ (l.body # <<>> /\ ValidUtf8(l.body))
                  => l.status = 200 /\ claim.ok /\ claim.v.sub = l.body

\* a login with the identifier "u1" was answered 200 and its token decodes to
\* a Claim with that sub
C14_Witness ==
    \E j \in DOMAIN logins :
        /\ logins[j].body = <<117, 49>> /\ logins[j].status = 200
        /\ Claim_decode(logins[j].token, logins[j].t2, jwt_secret).ok
        /\ Claim_decode(logins[j].token, logins[j].t2, jwt_secret).v.sub = <<117, 49>>

\* C15 as stated: every Claim minted by Claim::create has exp = iat + 360 s,
\* whatever the timing of the clock reads inside create.
C15_ExpIsIatPlus360 ==
    \A j \in DOMAIN logins :
        logins[j].status = 200
            => logins[j].token.claims.exp = logins[j].token.claims.iat + JWT_EXPIRE_SECONDS

\* request i presented, as the token auth selects, the token login j issued
PresentedIssued(i, j) ==
    /\ logins[j].status = 200
    /\ creds[i] \in {Cookie(logins[j].token), Header(TRUE, "Bearer ", logins[j].token)}

\* C16 as stated: a token minted at t is accepted by token verification at
\* t + 1 s and refused with 401 at t + 361 s and at every later time.
C16_TokenLifetime ==
    \A i \in DOMAIN req : \A j \in DOMAIN logins :
        PresentedIssued(i, j) =>
            /\ req[i].t0 = logins[j].t1 + 1000 => ~Refused(i)
            /\ req[i].t0 >= logins[j].t1 + (JWT_EXPIRE_SECONDS + 1) * 1000 => Refused(i)

-----------------------------------------------------------------------------
(* The egress ring and its batch loop (rest::api::aircraft, gis, grpc) *)

MaxProducers == 2
MaxPushes == 5
MaxIter == 3

\* std::mem::size_of::<AircraftPosition>(), a whole number of bytes the
\* compiler fixes; the model takes records of a kilobyte
SizeOfRecord == 1024

\* IsBatch::get_max_items, and max_items of gis_batch_loop
get_max_items == max_message_size_bytes \div SizeOfRecord

\* a drain that takes the whole ring
n_elements_all(max_items, len) == len

\* std::cmp::min(max_items, ring.len())
n_elements(max_items, len) == Min(max_items, len)

\* VecDeque::push_front
push_front(r, item) == <<item>> \o r

\* VecDeque::push_back
push_back(r, item) == Append(r, item)

\* ring.drain(0..n).collect(): the batch, and what stays in the ring
drain(r, n) == [batch |-> SubSeq(r, 1, n), ring |-> SubSeq(r, n + 1, Len(r))]

Producers == 1..MaxProducers

\* the producers that are inside gis_position_push
InPush == {p \in DOMAIN prod : prod[p] # "idle"}

\* gis_position_push has built its item and reaches ring.lock()
ProducerArrive(p) ==
    /\ prod[p] = "idle"
    /\ pushed + Cardinality(InPush) < MaxPushes
    /\ prod' = [prod EXCEPT ![p] = "lock"]
    /\ UNCHANGED <<loop_kind, max_message_size_bytes, ring, ring_lock, bat, gis_client, sent, pushed>>
    /\ UNCHANGED <<ingestVars, jwtVars, healthVars, codecVars, builderVars>>

\* ring.lock() returns: Mutex::lock blocks the caller until the mutex is free.
\* (Its Err arm is a poisoned mutex; no holder panics, so it is never taken.)
ProducerLock(p) ==
    /\ prod[p] = "lock"
    /\ ring_lock = "free"
    /\ ring_lock' = "producer"
    /\ prod' = [prod EXCEPT ![p] = "push"]
    /\ UNCHANGED <<loop_kind, max_message_size_bytes, ring, bat, gis_client, sent, pushed>>
    /\ UNCHANGED <<ingestVars, jwtVars, healthVars, codecVars, builderVars>>

\* ring.push_back(item), Ok(()), and the guard is dropped
ProducerPush(p) ==
    /\ prod[p] = "push"
    /\ ring' = push_back(ring, [id |-> pushed + 1, by |-> p])
    /\ pushed' = pushed + 1
    /\ ring_lock' = "free"
    /\ prod' = [prod EXCEPT ![p] = "idle"]
    /\ UNCHANGED <<loop_kind, max_message_size_bytes, bat, gis_client, sent>>
    /\ UNCHANGED <<ingestVars, jwtVars, healthVars, codecVars, builderVars>>

\* the loop's sleep ends and an iteration starts.  gis_batch_loop keeps its
\* `data` from one iteration to the next; Batch::push starts from a default one
BatWake ==
    /\ bat.pc = "sleep"
    /\ bat.iter < MaxIter
    /\ bat' = IF loop_kind = "gis_batch_loop"
              THEN [bat EXCEPT !.pc = "client", !.iter = @ + 1, !.drained = 0]
              ELSE [bat EXCEPT !.pc = "lock", !.iter = @ + 1, !.drained = 0, !.data = <<>>]
    /\ UNCHANGED <<loop_kind, max_message_size_bytes, ring, ring_lock, prod, gis_client, sent, pushed>>
    /\ UNCHANGED <<ingestVars, jwtVars, healthVars, codecVars, builderVars>>

\* gis_batch_loop: grpc_clients.gis.get_client(); a handle that holds a client
\* returns it, one that holds none connects, which may fail
BatGetClient(connected) ==
    /\ loop_kind = "gis_batch_loop" /\ bat.pc = "client"
    /\ IF gis_client = "some" \/ connected
       THEN gis_client' = "some" /\ bat' = [bat EXCEPT !.pc = "lock"]
       ELSE gis_client' = gis_client /\ bat' = [bat EXCEPT !.pc = "sleep"]
    /\ UNCHANGED <<loop_kind, max_message_size_bytes, ring, ring_lock, prod, sent, pushed>>
    /\ UNCHANGED <<ingestVars, jwtVars, healthVars, codecVars, builderVars>>

\* gis_batch_loop: ring.lock(), which waits for the mutex
BatLock ==
    /\ loop_kind = "gis_batch_loop" /\ bat.pc = "lock"
    /\ ring_lock = "free"
    /\ ring_lock' = "batcher"
    /\ bat' = [bat EXCEPT !.pc = "drain"]
    /\ UNCHANGED <<loop_kind, max_message_size_bytes, ring, prod, gis_client, sent, pushed>>
    /\ UNCHANGED <<ingestVars, jwtVars, healthVars, codecVars, builderVars>>

\* Batch::push: try_lock(), which gives up when the mutex is held
BatTryLock ==
    /\ loop_kind = "Batch" /\ bat.pc = "lock"
    /\ IF ring_lock = "free"
       THEN ring_lock' = "batcher" /\ bat' = [bat EXCEPT !.pc = "drain"]
       ELSE ring_lock' = ring_lock /\ bat' = [bat EXCEPT !.pc = "send"]
    /\ UNCHANGED <<loop_kind, max_message_size_bytes, ring, prod, gis_client, sent, pushed>>
    /\ UNCHANGED <<ingestVars, jwtVars, healthVars, codecVars, builderVars>>

\* under the lock: the drain of at most max_items records, and the unlock.
\* gis_batch_loop leaves `data` as it was when the ring is empty
BatDrain ==
    /\ bat.pc = "drain"
    /\ LET n == n_elements(get_max_items, Len(ring))
           d == drain(ring, n)
       IN IF loop_kind = "gis_batch_loop" /\ ring = <<>>
          THEN ring' = ring /\ bat' = [bat EXCEPT !.pc = "send"]
          ELSE /\ ring' = d.ring
               /\ bat' = [bat EXCEPT !.pc = "send", !.data = d.batch,
                                     !.drained = Len(ring) - Len(d.ring)]
    /\ ring_lock' = "free"
    /\ UNCHANGED <<loop_kind, max_message_size_bytes, prod, gis_client, sent, pushed>>
    /\ UNCHANGED <<ingestVars, jwtVars, healthVars, codecVars, builderVars>>

\* nothing to send ends the iteration; else the call on the spatial-service
\* client with `data` is made and answered.  A call that succeeded ends the
\* iteration; after one that failed the loop goes on to invalidate()
BatSend(ok) ==
    /\ bat.pc = "send"
    /\ IF bat.data = <<>>
       THEN sent' = sent /\ gis_client' = gis_client /\ bat' = [bat EXCEPT !.pc = "sleep"]
       ELSE /\ sent' = Append(sent, [batch |-> bat.data, ok |-> ok, iter |-> bat.iter])
            /\ gis_client' = IF ok THEN "some" ELSE gis_client
            /\ bat' = [bat EXCEPT !.pc = IF ok THEN "sleep" ELSE "invalidate"]
    /\ UNCHANGED <<loop_kind, max_message_size_bytes, ring, ring_lock, prod, pushed>>
    /\ UNCHANGED <<ingestVars, jwtVars, healthVars, codecVars, builderVars>>

\* grpc_clients.gis.invalidate().await after the failed call: the handle
\* gives up its client, and the iteration ends
BatInvalidate ==
    /\ bat.pc = "invalidate"
    /\ gis_client' = "none"
    /\ bat' = [bat EXCEPT !.pc = "sleep"]
    /\ UNCHANGED <<loop_kind, max_message_size_bytes, ring, ring_lock, prod, sent, pushed>>
    /\ UNCHANGED <<ingestVars, jwtVars, healthVars, codecVars, builderVars>>

InitRing ==
    /\ now = 0
    /\ cache = EmptyFn
    /\ calls = EmptyFn
    /\ keyTtl = EmptyFn
    /\ IngestIdle
    /\ JwtIdle
    /\ HealthIdle
    /\ BuilderIdle
    /\ CodecIdle
    /\ loop_kind \in {"gis_batch_loop", "Batch"}
    /\ max_message_size_bytes = gis_max_message_size_bytes
    /\ ring = <<>>
    /\ ring_lock = "free"
    /\ prod = [p \in Producers |-> "idle"]
    /\ bat = BatStart
    /\ gis_client = "none"
    /\ sent = <<>>
    /\ pushed = 0

NextRing ==
    \/ \E p \in Producers : ProducerArrive(p)
    \/ \E p \in Producers : ProducerLock(p)
    \/ \E p \in Producers : ProducerPush(p)
    \/ BatWake
    \/ \E connected \in BOOLEAN : BatGetClient(connected)
    \/ BatLock
    \/ BatTryLock
    \/ BatDrain
    \/ \E ok \in BOOLEAN : BatSend(ok)
    \/ BatInvalidate

SpecRing == InitRing /\ [][NextRing]_vars

-----------------------------------------------------------------------------
(* Claims on the egress ring *)

\* the capacity the configuration gives a ring, in records
RingCapacity == ringbuffer_size_bytes \div SizeOfRecord

\* C17: in every reachable state the ring holds at most
\* ringbuffer_size_bytes / sizeof(record) records, whatever the number of
\* pushes and even when the batch loop never runs
C17_RingBounded ==
    Len(ring) <= RingCapacity

\* C18: a producer never waits for the ring mutex: one that has reached the
\* lock can always go on, whoever holds the mutex
C18_ProducerNeverWaits ==
    \A p \in DOMAIN prod : prod[p] = "lock" => ENABLED ProducerLock(p)

\* C19: an iteration of the batch loop removes at most
\* floor(max_message_size_bytes / sizeof(record)) records from the ring, and
\* no batch passed to the spatial-service client is larger than that
C19_BatchSizeBounded ==
    /\ bat.drained <= get_max_items
    /\ \A k \in DOMAIN sent : Len(sent[k].batch) <= get_max_items

\* the ring held more than a full batch and a full batch of it was sent
C19_Witness ==
    /\ ring # <<>>
    /\ bat.drained = get_max_items
    /\ \E k \in DOMAIN sent : Len(sent[k].batch) = get_max_items

\* the places (batch, index) at which the record numbered id was passed
PassedAt(id) ==
    {<<k, i>> \in (DOMAIN sent) \X (1..(get_max_items + MaxPushes)) :
        i <= Len(sent[k].batch) /\ sent[k].batch[i].id = id}

\* place x is in an earlier batch than place y, or earlier in the same batch
Earlier(x, y) == x[1] < y[1] \/ (x[1] = y[1] /\ x[2] < y[2])

\* C20: of two records pushed into the ring, a before b, that are both
\* passed to the spatial-service client, a is passed in an earlier batch than
\* b or earlier within the same batch
C20_FifoOrder ==
    \A a, b \in 1..pushed :
        (a < b /\ PassedAt(a) # {} /\ PassedAt(b) # {}) =>
            \E x \in PassedAt(a) : \E y \in PassedAt(b) : Earlier(x, y)

\* records of both producers, pushed in turn, were passed in two batches
C20_Witness ==
    /\ Len(sent) >= 2
    /\ \E k \in DOMAIN sent : \E i, j \in DOMAIN sent[k].batch :
           sent[k].batch[i].by # sent[k].batch[j].by
    /\ \E a, b \in 1..pushed :
           /\ a < b
           /\ \E x \in PassedAt(a) : \E y \in PassedAt(b) : x[1] < y[1]

-----------------------------------------------------------------------------
(* Claims on a failing spatial-service call *)

\* the numbers of the records of a batch
IdsOf(batch) == {batch[i].id : i \in DOMAIN batch}

\* the call of this iteration has just failed
JustFailed ==
    /\ sent # <<>>
    /\ bat.pc = "sleep"
    /\ sent[Len(sent)].iter = bat.iter
    /\ ~sent[Len(sent)].ok

\* C21: when a spatial-service call fails the batch loop (a) invalidates the
\* client handle, (b) neither puts the drained records back in the ring nor
\* sends them again in a later iteration, and (c) is back at its sleep for
\* the next tick: after the failed call the iteration does nothing but the
\* invalidation
C21_FailedBatchDropped ==
    /\ JustFailed => gis_client = "none"
    /\ \A k \in DOMAIN sent : ~sent[k].ok =>
          /\ IdsOf(sent[k].batch) \cap IdsOf(ring) = {}
          /\ \A j \in DOMAIN sent :
                j > k => IdsOf(sent[k].batch) \cap IdsOf(sent[j].batch) = {}
          /\ (sent[k].iter = bat.iter => bat.pc \in {"invalidate", "sleep"})

\* C22: an iteration that drained no record from the ring issues no call to
\* the spatial-service client, whatever happened in earlier iterations
C22_NoCallWithoutDrain ==
    \A k \in DOMAIN sent : sent[k].iter = bat.iter => bat.drained > 0

\* the client handle was invalidated by a failed call and holds no client
Unavailable ==
    /\ gis_client = "none"
    /\ \E k \in DOMAIN sent : ~sent[k].ok

\* C23: while the spatial-service client is unavailable (invalidated after a
\* failure and not yet usable again) the batch loop removes no record from
\* the ring
C23_NoDrainWhileUnavailable ==
    [][Unavailable => Len(ring') >= Len(ring)]_vars

-----------------------------------------------------------------------------
(* The health probe (rest::api::health) *)

MaxProbes == 4

\* StatusCode::SERVICE_UNAVAILABLE
SERVICE_UNAVAILABLE == 503

\* a probe that asks the storage service only
health_check_storage_only(storage_ready, gis_ready) ==
    IF storage_ready THEN 200 ELSE SERVICE_UNAVAILABLE

\* health_check: is_ready() on the storage adsb client, then on the gis
\* client, both always asked; Ok(()) is 200
health_check(storage_ready, gis_ready) ==
    LET ok0 == TRUE
        ok1 == IF ~storage_ready THEN FALSE ELSE ok0
        ok2 == IF ~gis_ready THEN FALSE ELSE ok1
    IN IF ok2 THEN 200 ELSE SERVICE_UNAVAILABLE

\* GET /health up to its first await: is_ready on the storage adsb client is
\* answered with what the storage service reports at that time
HealthCheck ==
    /\ Len(probes) < MaxProbes
    /\ probes' = Append(probes, [pc |-> "gis", storage |-> ready.storage, gis |-> FALSE,
                                 status |-> 0])
    /\ UNCHANGED ready
    /\ UNCHANGED <<ingestVars, jwtVars, egressVars, codecVars, builderVars>>

\* the rest of GET /health: is_ready on the gis client is answered with what
\* the gis service reports by then, and the response is made of the two
\* answers
HealthAnswer(k) ==
    /\ probes[k].pc = "gis"
    /\ probes' = [probes EXCEPT ![k] =
                      [pc |-> "done", storage |-> @.storage, gis |-> ready.gis,
                       status |-> health_check(@.storage, ready.gis)]]
    /\ UNCHANGED ready
    /\ UNCHANGED <<ingestVars, jwtVars, egressVars, codecVars, builderVars>>

\* a service goes down or comes back
ServiceChange(s) ==
    /\ ready' = [ready EXCEPT ![s] = ~@]
    /\ UNCHANGED probes
    /\ UNCHANGED <<ingestVars, jwtVars, egressVars, codecVars, builderVars>>

InitHealth ==
    /\ now = 0
    /\ cache = EmptyFn
    /\ calls = EmptyFn
    /\ keyTtl = EmptyFn
    /\ IngestIdle
    /\ JwtIdle
    /\ EgressIdle
    /\ HealthIdle
    /\ BuilderIdle
    /\ CodecIdle

NextHealth ==
    \/ HealthCheck
    \/ \E k \in DOMAIN probes : HealthAnswer(k)
    \/ \E s \in {"storage", "gis"} : ServiceChange(s)

SpecHealth == InitHealth /\ [][NextHealth]_vars

\* C24: GET /health answers 200 if and only if both the storage service and
\* the gis service report ready when the probe asks them, and 503 otherwise
C24_HealthIffBothReady ==
    \A k \in DOMAIN probes :
        probes[k].pc = "done" =>
            /\ probes[k].status = 200 <=> (probes[k].storage /\ probes[k].gis)
            /\ probes[k].status # 200 => probes[k].status = 503

\* storage ready with gis down was probed, and so was both ready
C24_Witness ==
    /\ \E k \in DOMAIN probes :
           /\ probes[k].pc = "done"
           /\ probes[k].storage /\ ~probes[k].gis /\ probes[k].status = 503
    /\ \E k \in DOMAIN probes :
           /\ probes[k].pc = "done"
           /\ probes[k].storage /\ probes[k].gis /\ probes[k].status = 200

-----------------------------------------------------------------------------
(* Decoders and parsers, applied to wire values *)

\* replies a Redis server or proxy can give to the INCR pipeline
IncrementReplies ==
    {[tag |-> "Okay"], [tag |-> "Nil"], Int64(0, 1),
     [tag |-> "Bulk", items |-> <<>>],
     [tag |-> "Bulk", items |-> <<[tag |-> "Data", data |-> "1"]>>],
     [tag |-> "Bulk", items |-> <<[tag |-> "Nil"]>>],
     [tag |-> "Bulk", items |-> <<Int64(0, 0)>>],
     [tag |-> "Bulk", items |-> <<Int64(-1, 7)>>],
     [tag |-> "Bulk", items |-> <<Int64(0, 1)>>],
     [tag |-> "Bulk", items |-> <<Int64(0, 3)>>],
     [tag |-> "Bulk", items |-> <<Int64(1, 0)>>],
     [tag |-> "Bulk", items |-> <<Int64(1, 2)>>],
     [tag |-> "Bulk", items |-> <<Int64(0, 0), Int64(0, 2)>>]}

IncrementInputs == {[fn |-> "increment", reply |-> r] : r \in IncrementReplies}

\* increment reads the reply of its pipeline
ApplyIncrement ==
    /\ wire # <<>> /\ wire.fn = "increment" /\ decoded = <<>>
    /\ decoded' = <<increment_parse(wire.reply)>>
    /\ UNCHANGED <<wire, ingestVars, jwtVars, egressVars, healthVars, builderVars>>

\* cache contents and key lists for multiple_get: keys present, absent,
\* expired, unparsable, and the key two names joined by a blank spell
MgetCaches ==
    {EmptyFn,
     [k \in {"a"} |-> [val |-> "7", exp |-> NoExpiry]],
     [k \in {"a", "b"} |-> [val |-> IF k = "a" THEN "7" ELSE "9", exp |-> 1000]],
     [k \in {"a", "b"} |-> [val |-> IF k = "a" THEN "7" ELSE "x", exp |-> NoExpiry]],
     [k \in {"a b", ""} |-> [val |-> "5", exp |-> NoExpiry]]}

MgetKeys == {<<>>, <<"a">>, <<"b">>, <<"a", "b">>, <<"a", "a">>}

MgetInputs ==
    {[fn |-> "multiple_get", cache |-> c, keys |-> ks, t |-> t, conn |-> conn] :
        c \in MgetCaches, ks \in MgetKeys, t \in {0, 1000}, conn \in ConnOutcomes}

\* multiple_get reads the cache
ApplyMultipleGet ==
    /\ wire # <<>> /\ wire.fn = "multiple_get" /\ decoded = <<>>
    /\ decoded' = <<multiple_get(wire.cache, wire.keys, wire.t, wire.conn)>>
    /\ UNCHANGED <<wire, ingestVars, jwtVars, egressVars, healthVars, builderVars>>

\* the category sets of an identification message and its 3-bit category
TypeInputs ==
    {[fn |-> "get_aircraft_type", tc |-> tc, ca |-> ca] :
        tc \in {"A", "B", "C", "D"}, ca \in 0..7}

\* adsb() derives the aircraft type of an identification message
ApplyAircraftType ==
    /\ wire # <<>> /\ wire.fn = "get_aircraft_type" /\ decoded = <<>>
    /\ decoded' = <<get_aircraft_type(wire.tc, wire.ca)>>
    /\ UNCHANGED <<wire, ingestVars, jwtVars, egressVars, healthVars, builderVars>>

\* the four bytes of an i32, little-endian
Le32(v) ==
    LET u == IF v >= 0 THEN v ELSE (v + 2147483647) + 1
    IN <<u % 256, (u \div 256) % 256, (u \div 65536) % 256,
         (u \div 16777216) + (IF v >= 0 THEN 0 ELSE 128)>>

\* the Location frame of the catalogue with other direction or position fields
WithDirection(west, track) ==
    [NetridLocation EXCEPT ![2] = 32 + 2 * west, ![3] = track]

WithPosition(lat, lon) ==
    SubSeq(NetridLocation, 1, 5) \o Le32(lat) \o Le32(lon) \o SubSeq(NetridLocation, 14, 25)

\* wire latitudes and longitudes, in units of 1e-7 degrees
LatWire == {0, 522572021, 900000000, 900000001, -900000000, -900000001,
            2147483647, -2147483647 - 1}
LonWire == {0, 39193725, 1799999999, 1800000000, -1800000000, -1800000001,
            2147483647, -2147483647 - 1}

LocationInputs ==
    {[fn |-> "location", frame |-> WithDirection(west, track)] :
        west \in {0, 1}, track \in 0..255}
    \cup {[fn |-> "location", frame |-> WithPosition(lat, lon)] :
            lat \in LatWire, lon \in LonWire}

\* network_remote_id decodes a Location frame and builds its two records
ApplyLocation ==
    /\ wire # <<>> /\ wire.fn = "location" /\ decoded = <<>>
    /\ decoded' = <<netrid_decode(NewRequest("netrid", wire.frame, <<117, 49>>, 0), 1,
                                  FrameUnpack(wire.frame).v, 0)>>
    /\ UNCHANGED <<wire, ingestVars, jwtVars, egressVars, healthVars, builderVars>>

\* pairs of 17-bit CPR halves: the pair of the catalogue, the corners, and
\* halves that no single position encodes
CprHalves == {0, 19661, 32768, 51372, 65536, 74158, 93000, 131071}

CprInputs ==
    {[fn |-> "decode_cpr", lat_even |-> a, lon_even |-> b, lat_odd |-> c, lon_odd |-> d] :
        a \in CprHalves, c \in CprHalves, b \in {0, 51372, 131071}, d \in {0, 50194, 65536}}

\* gis_position_push decodes a pair of CPR halves
ApplyCpr ==
    /\ wire # <<>> /\ wire.fn = "decode_cpr" /\ decoded = <<>>
    /\ decoded' = <<decode_cpr(wire.lat_even, wire.lon_even, wire.lat_odd, wire.lon_odd)>>
    /\ UNCHANGED <<wire, ingestVars, jwtVars, egressVars, healthVars, builderVars>>

\* what a build makes of decode_altitude: `n * coef_ft - 1000` is a u32
\* subtraction, which panics under overflow checks and wraps to
\* 2^32 - below without them
decode_altitude_builds(altitude) ==
    LET d == decode_altitude(altitude) IN
    IF d.underflow
    THEN {[kind |-> "panic"], [kind |-> "wrapped", below |-> -d.alt_ft]}
    ELSE {[kind |-> "value", alt_ft |-> d.alt_ft]}

\* every 12-bit altitude field
AltitudeInputs == {[fn |-> "decode_altitude", alt |-> a] : a \in 0..4095}

\* a handler decodes the altitude field of a position message
ApplyAltitude ==
    /\ wire # <<>> /\ wire.fn = "decode_altitude" /\ decoded = <<>>
    /\ \E o \in decode_altitude_builds(wire.alt) : decoded' = <<o>>
    /\ UNCHANGED <<wire, ingestVars, jwtVars, egressVars, healthVars, builderVars>>

\* encode_cpr takes degrees as f64.  A latitude or longitude k stands for the
\* f64 nearest to k / 100000 degrees; on these inputs no floor() of encode_cpr
\* is taken of a value within 3 * 10^-6 of an integer other than an exact one,
\* so the f64 steps and the integer steps below give the same counts.
CprUnit == 100000
Turn == 360 * CprUnit

\* (SCALAR * r / Turn + 0.5).floor() for 0 <= r < Turn; Turn = 2^8 * 140625
Scaled(r) ==
    512 * (r \div 140625) + (1024 * (r % 140625) + 140625) \div 281250

\* nl(rlat) - i clamped at 1 in msg::adsb::encode_cpr: rlat is built from
\* cpr_latitude, the latitude count after modulus(yz, SCALAR)
encode_zones(cpr_flag, latitude) ==
    LET yz == Scaled(((60 - cpr_flag) * latitude) % Turn)
        cpr_latitude == yz % CprScale
        rlat == CprScale * (((60 - cpr_flag) * latitude) \div Turn) + cpr_latitude
    IN IF cpr_flag = 0
       THEN (IF nl_even(rlat) < 1 THEN 1 ELSE nl_even(rlat))
       ELSE (IF nl_odd(rlat) - 1 < 1 THEN 1 ELSE nl_odd(rlat) - 1)

\* msg::adsb::encode_cpr: (cpr_longitude, cpr_latitude) for flag 0 (even) or
\* 1 (odd)
encode_cpr(cpr_flag, longitude, latitude) ==
    IF cpr_flag \notin {0, 1} THEN Err("InvalidFlag")
    ELSE
    LET yz == Scaled(((60 - cpr_flag) * latitude) % Turn)
        cpr_latitude == yz % CprScale
        xz == Scaled((longitude * encode_zones(cpr_flag, latitude)) % Turn)
        cpr_longitude == xz % CprScale
    IN Ok(<<cpr_longitude, cpr_latitude>>)

\* latitudes 52.2572, -31.5, 0.00006, 88.2 and -77.3 degrees, the last grid
\* point below 6, 30 and 78 degrees, and one below 6 * 360/59 degrees
CprLatitudes ==
    {5225720, -3150000, 6, 8820000, -7730000, 599999, 2999999, 7799999, 3661016}

\* longitudes 3.91937, -154.87976, 136.59, -0.00001, 0, 179.99 and 179.99999
\* degrees
CprLongitudes ==
    {391937, -15487976, 13659000, -1, 0, 17999000, 17999999}

RoundTripInputs ==
    {[fn |-> "encode_cpr", lat |-> h, lon |-> q] : h \in CprLatitudes, q \in CprLongitudes}

\* a point is encoded as an even and an odd frame and the pair is decoded
ApplyRoundTrip ==
    /\ wire # <<>> /\ wire.fn = "encode_cpr" /\ decoded = <<>>
    /\ LET even == encode_cpr(0, wire.lon, wire.lat).v
           odd == encode_cpr(1, wire.lon, wire.lat).v
       IN decoded' = <<[even |-> even, odd |-> odd,
                        back |-> decode_cpr(even[2], even[1], odd[2], odd[1])]>>
    /\ UNCHANGED <<wire, ingestVars, jwtVars, egressVars, healthVars, builderVars>>

\* gis_position_push between multiple_get and decode_cpr: the frame at hand
\* (its CPR format and halves) and the two values read under the keys
\* "<icao>:lat_cpr:1" and "<icao>:lon_cpr:1", 1 being CPRFormat::Odd as u8.
\* An Odd frame returns before the lookup; otherwise the result is the
\* argument list of decode_cpr in the order of its parameters
cpr_arguments(odd_flag, lat_cpr, lon_cpr, results) ==
    IF odd_flag = "Odd" THEN <<>>
    ELSE <<results[1], results[2], lat_cpr, lon_cpr>>

CprFields == {19661, 93000}

\* a position frame of either format, and the halves of the odd frame of the
\* same aircraft as read back from the cache
CprArgumentInputs ==
    {[fn |-> "gis_position_push", odd_flag |-> f, lat_cpr |-> a, lon_cpr |-> b,
      cached_odd |-> <<c, d>>] :
        f \in {"Even", "Odd"}, a \in CprFields, b \in CprFields,
        c \in CprFields, d \in CprFields}

ApplyCprArguments ==
    /\ wire # <<>> /\ wire.fn = "gis_position_push" /\ decoded = <<>>
    /\ decoded' = <<cpr_arguments(wire.odd_flag, wire.lat_cpr, wire.lon_cpr,
                                  wire.cached_odd)>>
    /\ UNCHANGED <<wire, ingestVars, jwtVars, egressVars, healthVars, builderVars>>

\* values of the 16-bit timestamp field: tenths of a second up to the hour
\* (36000) and the values above it that the field can hold
TimestampFields == {0, 1, 1000, 1001, 35999, 36000, 36001, 40000, 65535}

\* decode instants, ms: the top of an hour, 99 ms, 100 s and 59 min 59.999 s
\* into it, in two different hours
DecodeInstants ==
    {h * HourMs + d : h \in {1, 5}, d \in {0, 99, 100000, 100099, 3599999}}

TimestampInputs ==
    {[fn |-> "decode_timestamp", timestamp |-> ts, t |-> t] :
        ts \in TimestampFields, t \in DecodeInstants}

\* process_location_message decodes the timestamp of a Location message
ApplyTimestamp ==
    /\ wire # <<>> /\ wire.fn = "decode_timestamp" /\ decoded = <<>>
    /\ decoded' = <<decode_timestamp(wire.timestamp, wire.t)>>
    /\ UNCHANGED <<wire, ingestVars, jwtVars, egressVars, healthVars, builderVars>>

CodecInputs ==
    IncrementInputs \cup MgetInputs \cup TypeInputs \cup LocationInputs \cup CprInputs
        \cup AltitudeInputs \cup RoundTripInputs \cup CprArgumentInputs
        \cup TimestampInputs

InitCodec ==
    /\ now = 0
    /\ cache = EmptyFn
    /\ calls = EmptyFn
    /\ keyTtl = EmptyFn
    /\ IngestIdle
    /\ JwtIdle
    /\ EgressIdle
    /\ HealthIdle
    /\ BuilderIdle
    /\ wire \in CodecInputs
    /\ decoded = <<>>

NextCodec ==
    \/ ApplyIncrement
    \/ ApplyMultipleGet
    \/ ApplyAircraftType
    \/ ApplyLocation
    \/ ApplyCpr
    \/ ApplyAltitude
    \/ ApplyRoundTrip
    \/ ApplyCprArguments
    \/ ApplyTimestamp

SpecCodec == InitCodec /\ [][NextCodec]_vars

\* a handler was refused by increment: the call was made and gave no count
IncrementFailed(i) ==
    /\ Done(i) /\ ~req[i].incr
    /\ \/ req[i].ep = "adsb" /\ Len(req[i].payload) = ADSB_SIZE_BYTES
       \/ /\ req[i].ep = "netrid" /\ Len(req[i].payload) = REMOTE_ID_PACKET_LENGTH
          /\ FrameUnpack(req[i].payload).ok
          /\ FrameUnpack(req[i].payload).v.header.message_type # "Basic"

\* the handlers' side of C25: a request whose increment failed is answered
\* 500 and has pushed, published and stored nothing
IncrementFailureAnswers500 ==
    \A i \in DOMAIN req : IncrementFailed(i) => req[i].status = 500 /\ NoEffects(i)

\* C25: increment returns a count >= 1 or fails
C25_IncrementCountAtLeastOne ==
    (wire # <<>> /\ wire.fn = "increment" /\ decoded # <<>> /\ decoded[1].ok)
        => decoded[1].v >= 1

\* C26 as stated: for every list of requested keys multiple_get returns
\* exactly one parsed value per requested key or fails with OperationFailed;
\* it never returns a shorter or a longer vector
C26_MultipleGetAllOrNothing ==
    (wire # <<>> /\ wire.fn = "multiple_get" /\ decoded # <<>>) =>
        /\ decoded[1].ok => Len(decoded[1].v) = Len(wire.keys)
        /\ ~decoded[1].ok => decoded[1].e = "OperationFailed"

\* C26 amended: for every list of requested keys multiple_get returns
\* exactly one parsed value per requested key, or fails with CouldNotConnect
\* when the pool hands out no connection, or fails with OperationFailed; it
\* fails with CouldNotConnect in no other case and never returns a shorter
\* or a longer vector
C26_MultipleGetAllOrNothingOrNoConnection ==
    (wire # <<>> /\ wire.fn = "multiple_get" /\ decoded # <<>>) =>
        /\ decoded[1].ok => Len(decoded[1].v) = Len(wire.keys)
        /\ ~decoded[1].ok => decoded[1].e \in {"OperationFailed", "CouldNotConnect"}
        /\ wire.conn = "CouldNotConnect" =>
               ~decoded[1].ok /\ decoded[1].e = "CouldNotConnect"
        /\ (~decoded[1].ok /\ wire.conn # "CouldNotConnect") =>
               decoded[1].e = "OperationFailed"

\* two keys were asked of which one has expired, and the call failed
C26_Witness ==
    /\ wire # <<>> /\ wire.fn = "multiple_get" /\ decoded # <<>>
    /\ wire.conn = "ok" /\ Len(wire.keys) = 2
    /\ \E i \in DOMAIN wire.keys : ~Live(wire.cache, wire.keys[i], wire.t)
    /\ \E i \in DOMAIN wire.keys : Live(wire.cache, wire.keys[i], wire.t)
    /\ ~decoded[1].ok /\ decoded[1].e = "OperationFailed"

-----------------------------------------------------------------------------
(* Cache key namespaces *)

\* the folders of the pools rest_server() and the legacy handler build
PoolFolders == {AdsbFolder, NetridFolder, AircraftFolder}

\* the subkeys request i hands to a pool operation
SubkeysOf(i) ==
    LET r == req[i]
        frame == AdsbFrame(r.payload)
    IN (IF r.ep \in {"aircraft", "mavlink"} /\ ValidUtf8(r.payload)
        THEN {Utf8Str(r.payload)} ELSE {bytes_to_key(r.payload)}) \cup
       (IF r.ep = "adsb" /\ Len(r.payload) = ADSB_SIZE_BYTES /\ frame.ok
           /\ frame.v.df = "ADSB" /\ frame.v.me.me = "AirbornePosition"
        THEN LET icao == get_adsb_icao_address(frame.v.icao)
                 kvs == AdsbKeyvals(icao, frame.v.me)
             IN {kvs[j][1] : j \in DOMAIN kvs}
                    \cup {AdsbGetKeys(icao)[j] : j \in DOMAIN AdsbGetKeys(icao)}
        ELSE {})

\* C27: every key a pool operation writes in the cache has the form
\* <folder>:<subkey> with the folder of a pool
C27_KeysCarryFolder ==
    \A k \in DOMAIN cache :
        \E f \in PoolFolders : \E i \in DOMAIN req : \E sub \in SubkeysOf(i) :
            k = FolderKey(f, sub)

-----------------------------------------------------------------------------
(* Claims on the decoders *)

\* the aircraft-type table as the specification states it
TypeTable(tc, ca) ==
    IF tc = "D" \/ ca = 0 THEN "Other"
    ELSE IF tc = "C" /\ ca \in {4, 5, 6, 7} THEN "Groundobstacle"
    ELSE IF tc = "B" /\ ca \in {1, 4} THEN "Glider"
    ELSE IF tc = "B" /\ ca = 2 THEN "Airship"
    ELSE IF tc = "B" /\ ca = 3 THEN "Unpowered"
    ELSE IF tc = "B" /\ ca = 7 THEN "Rocket"
    ELSE IF tc = "A" /\ ca = 7 THEN "Rotorcraft"
    ELSE "Other"

\* C28: for every category set A..D and category 0..7 get_aircraft_type
\* returns the entry of the aircraft-type table, Other where it has none
C28_AircraftTypeTable ==
    (wire # <<>> /\ wire.fn = "get_aircraft_type" /\ decoded # <<>>)
        => decoded[1] = TypeTable(wire.tc, wire.ca)

\* category 6 of set B, which the table leaves to Other, was derived
C28_Witness ==
    /\ wire # <<>> /\ wire.fn = "get_aircraft_type" /\ decoded # <<>>
    /\ wire.tc = "B" /\ wire.ca = 6 /\ decoded[1] = "Other"

\* the Location frame on the wire was decoded into its two records
LocationDecoded ==
    /\ wire # <<>> /\ wire.fn = "location" /\ decoded # <<>>
    /\ decoded[1].pc = "push_position"

\* C29: every AircraftVelocity a handler builds for the queue has its track
\* angle in [0, 360), for every wire value of the direction fields
C29_TrackAngleInRange ==
    LocationDecoded =>
        decoded[1].item[2].track_angle >= 0 /\ decoded[1].item[2].track_angle < 360

\* C30: every AircraftPosition a handler builds for the queue has latitude in
\* [-90, 90] and longitude in [-180, 180), for every wire value of the position
\* fields: Remote-ID in units of 1e-7 degrees, a decoded CPR pair in units of
\* 6 / 2^17 degrees of latitude and (360 / ni) / 2^17 degrees of longitude
\* (half a turn of HalfTurnBelow zones is an f64 below 180)
C30_PositionInRange ==
    /\ LocationDecoded =>
          /\ decoded[1].item[1].latitude >= -900000000
          /\ decoded[1].item[1].latitude <= 900000000
          /\ decoded[1].item[1].longitude >= -1800000000
          /\ decoded[1].item[1].longitude < 1800000000
    /\ (wire # <<>> /\ wire.fn = "decode_cpr" /\ decoded # <<>> /\ decoded[1].ok) =>
          /\ decoded[1].v.lat >= -(15 * CprScale)
          /\ decoded[1].v.lat <= 15 * CprScale
          /\ 2 * decoded[1].v.lon >= -(decoded[1].v.ni * CprScale)
          /\ \/ 2 * decoded[1].v.lon < decoded[1].v.ni * CprScale
             \/ /\ 2 * decoded[1].v.lon = decoded[1].v.ni * CprScale
                /\ decoded[1].v.ni \in HalfTurnBelow

\* bit k of a (bit 0 the least significant)
Bit(a, k) == (a \div (2 ^ k)) % 2

\* ((a & 0xFE0) >> 1) | (a & 0xF): bits 11..5 of a moved down by one, over
\* bits 3..0
AltitudeN(a) ==
    16 * (Bit(a, 5) + 2 * Bit(a, 6) + 4 * Bit(a, 7) + 8 * Bit(a, 8) + 16 * Bit(a, 9)
            + 32 * Bit(a, 10) + 64 * Bit(a, 11))
      + (Bit(a, 0) + 2 * Bit(a, 1) + 4 * Bit(a, 2) + 8 * Bit(a, 3))

\* C31: for every 12-bit altitude field a decode_altitude yields
\* n * coef - 1000 feet, n = ((a & 0xFE0) >> 1) | (a & 0xF), coef = 25 when
\* bit 4 of a is set and 100 otherwise, the negative value included, with no
\* wrap-around and no panic
C31_AltitudeFeet ==
    (wire # <<>> /\ wire.fn = "decode_altitude" /\ decoded # <<>>) =>
        /\ decoded[1].kind = "value"
        /\ decoded[1].alt_ft
              = AltitudeN(wire.alt) * (IF Bit(wire.alt, 4) = 1 THEN 25 ELSE 100) - 1000

Abs(x) == IF x < 0 THEN -x ELSE x

\* a point was encoded twice and the pair passed decode_cpr's zone test
RoundTripDecoded ==
    wire # <<>> /\ wire.fn = "encode_cpr" /\ decoded # <<>> /\ decoded[1].back.ok

\* a point R / Turn into a zone and a count c / 2^17 into the zone dq above
\* it are at most 1 / 2^18 of a zone apart (dq = 0 or 1; the count is never
\* that close from the zone below)
CprNear(R, c, dq) ==
    LET g == c - 512 * (R \div 140625) IN
    \/ dq = 0 /\ g \in 0..513 /\ Abs(g * 140625 - 512 * (R % 140625)) <= 70312
    \/ dq = 1 /\ c = 0 /\ Turn - R <= 137

\* C32: when the even and odd encodings of a point lie in the same number of
\* longitude zones, decode_cpr of the pair made by encode_cpr returns the
\* latitude within dlat / 2^18 and the longitude within dlon / 2^18 of the
\* point (dlat = 6 degrees, dlon = 360 / ni degrees, the longitude taken on
\* the circle)
C32_CprRoundTrip ==
    RoundTripDecoded =>
        LET back == decoded[1].back.v
            Ml == back.lat \div CprScale
            Ql == (60 * wire.lat) \div Turn
            M == back.lon \div CprScale
            Q == (wire.lon * back.ni) \div Turn
        IN
        /\ \E dq \in {0, 1} :
               /\ Ml = Ql + dq
               /\ CprNear((60 * wire.lat) % Turn, back.lat % CprScale, dq)
        /\ \E dq \in {0, 1} :
               /\ (M - Q - dq) % back.ni = 0
               /\ CprNear((wire.lon * back.ni) % Turn, back.lon % CprScale, dq)

\* the token the cookie named "token" holds, and without that cookie the rest
\* of a visible "Bearer " Authorization header: a set of one token or none
Selected(cred) ==
    IF cred.cookie # None THEN {cred.cookie[1]}
    ELSE {cred.header[k].rest :
            k \in {m \in DOMAIN cred.header :
                     cred.header[m].visible /\ cred.header[m].prefix = "Bearer "}}

\* C33: auth takes the token of the cookie "token" when the cookie is present
\* and of the Authorization Bearer header only when it is absent, verifies
\* that token alone, and admits the request exactly when it decodes to a Claim
C33_CookieBeforeHeader ==
    \A i \in DOMAIN req :
        ~Refused(i) <=>
            \E tk \in Selected(creds[i]) : Claim_decode(tk, req[i].t0, jwt_secret).ok

\* a request whose cookie does not decode and whose Bearer header does was
\* turned away
C33_Witness ==
    \E i \in DOMAIN req :
        /\ creds[i].cookie # None /\ creds[i].header # None
        /\ ~Claim_decode(creds[i].cookie[1], req[i].t0, jwt_secret).ok
        /\ Claim_decode(creds[i].header[1].rest, req[i].t0, jwt_secret).ok
        /\ Refused(i)

\* gis_position_push went on to decode_cpr with the frame at hand and the
\* cached halves
CprPaired ==
    wire # <<>> /\ wire.fn = "gis_position_push" /\ decoded # <<>> /\ decoded[1] # <<>>

C35_AckImpliesProcessed ==
    \A i, j \in DOMAIN req :
        (/\ SameEntry(i, j) /\ Done(i) /\ Done(j)
         /\ req[i].count = 1 /\ req[i].status >= 400
         /\ req[j].status = 200) =>
            \E k \in DOMAIN req :
                (k = i \/ k = j \/ (SameEntry(i, k) /\ SameEntry(k, j)))
                    /\ ~NoneEnqueuedBy(k)

\* request i carried a Remote-ID Location message to process_location_message
\* and has been answered
LocationHandled(i) ==
    /\ req[i].ep = "netrid" /\ Done(i) /\ req[i].gate
    /\ Len(req[i].payload) = REMOTE_ID_PACKET_LENGTH
    /\ FrameUnpack(req[i].payload).ok
    /\ FrameUnpack(req[i].payload).v.header.message_type = "Location"

\* C37: for a Remote-ID Location message the handler enqueues the
\* AircraftPosition if and only if it enqueues the matching AircraftVelocity,
\* and an answer of 200 means both were enqueued
C37_PositionWithVelocity ==
    \A i \in DOMAIN req :
        LocationHandled(i) =>
            /\ ItemsBy(i, REDIS_KEY_AIRCRAFT_POSITION) # <<>>
                  <=> ItemsBy(i, REDIS_KEY_AIRCRAFT_VELOCITY) # <<>>
            /\ req[i].status = 200 =>
                  /\ ItemsBy(i, REDIS_KEY_AIRCRAFT_POSITION) # <<>>
                  /\ ItemsBy(i, REDIS_KEY_AIRCRAFT_VELOCITY) # <<>>

\* C38: for every 16-bit timestamp field and every decode instant,
\* decode_timestamp returns an instant that is not later than the decode
\* instant: the field is counted from the top of the current hour when it is
\* at most the tenths of a second elapsed in the hour and from the top of the
\* previous hour otherwise
C38_TimestampNotInFuture ==
    (wire # <<>> /\ wire.fn = "decode_timestamp" /\ decoded # <<>>) =>
        LET elapsed == (wire.t % HourMs) \div 100
            top == wire.t - (wire.t % HourMs)
        IN /\ decoded[1].ok
           /\ decoded[1].v <= wire.t
           /\ wire.timestamp <= elapsed => decoded[1].v = top + 100 * wire.timestamp
           /\ wire.timestamp > elapsed =>
                 decoded[1].v = top - HourMs + 100 * wire.timestamp

-----------------------------------------------------------------------------
(* The CCSDS packet builder (openapi/ccsds.rs) *)

MaxBuilderCalls == 5

PACKET_LEN_MAX == 65542
HEADER_LEN == 6
DATA_BYTE_LEN_MAX == PACKET_LEN_MAX - HEADER_LEN
U16Max == 65535

\* headers as Header::new and Header::from_sections make them: the secondary
\* header flag and the data length field
BuilderHeaders ==
    {[secondary_header_flag |-> f, data_len_bytes |-> n] :
        f \in {"Absent", "Present"}, n \in {0, 5}}

\* the byte strings handed to the data calls
BuilderData == {<<>>, <<0>>, <<7, 9>>}

\* Header::add_data_length
add_data_length(header, n_bytes) ==
    LET total == header.data_len_bytes + n_bytes IN
    IF total > U16Max THEN [ok |-> FALSE, header |-> header]
    ELSE IF total > DATA_BYTE_LEN_MAX THEN [ok |-> FALSE, header |-> header]
    ELSE [ok |-> TRUE, header |-> [header EXCEPT !.data_len_bytes = total]]

\* the result of a call: its Ok or error name, the builder afterwards and the
\* packet, if one was built.  The with_ methods take the builder by value:
\* their Err leaves the caller without it
Outcome(res, b, packet) == [res |-> res, builder |-> b, packet |-> packet]
Dropped(b) == [b EXCEPT !.alive = FALSE]

\* CcsdsBuilder::with_header
with_header(b, header) ==
    IF b.header # <<>> THEN Outcome("DuplicatePrimaryHeader", Dropped(b), <<>>)
    ELSE Outcome("Ok", [b EXCEPT !.header = <<[header EXCEPT !.data_len_bytes = 0]>>], <<>>)

\* a with_secondary_header that does not look at has_user_data
with_secondary_header_unordered(b, data) ==
    IF b.header = <<>> THEN Outcome("MissingHeader", Dropped(b), <<>>)
    ELSE LET a == add_data_length(b.header[1], Len(data)) IN
         IF a.ok
         THEN Outcome("Ok",
                      [b EXCEPT !.data = @ \o data, !.has_secondary_header = TRUE,
                                !.header = <<[a.header EXCEPT
                                                !.secondary_header_flag = "Present"]>>],
                      <<>>)
         ELSE Outcome("ExceedsMaxDataLength", Dropped(b), <<>>)

\* CcsdsBuilder::with_secondary_header
with_secondary_header(b, data) ==
    IF b.has_user_data THEN Outcome("SecondaryHeaderAfterUserData", Dropped(b), <<>>)
    ELSE IF b.header = <<>> THEN Outcome("MissingHeader", Dropped(b), <<>>)
    ELSE LET a == add_data_length(b.header[1], Len(data)) IN
         IF a.ok
         THEN Outcome("Ok",
                      [b EXCEPT !.data = @ \o data, !.has_secondary_header = TRUE,
                                !.header = <<[a.header EXCEPT
                                                !.secondary_header_flag = "Present"]>>],
                      <<>>)
         ELSE Outcome("ExceedsMaxDataLength", Dropped(b), <<>>)

\* CcsdsBuilder::with_user_data
with_user_data(b, data) ==
    IF b.header = <<>> THEN Outcome("MissingHeader", Dropped(b), <<>>)
    ELSE LET a == add_data_length(b.header[1], Len(data)) IN
         IF a.ok
         THEN Outcome("Ok",
                      [b EXCEPT !.data = @ \o data, !.has_user_data = TRUE,
                                !.header = <<a.header>>],
                      <<>>)
         ELSE Outcome("ExceedsMaxDataLength", Dropped(b), <<>>)

\* CcsdsBuilder::build, which borrows the builder.  `data_len_bytes -= 1` is
\* a u16 subtraction: at 0 it panics in a build with overflow checks and wraps
\* to 65535 in a build without them
build(b, overflow_checks) ==
    IF b.header = <<>> THEN Outcome("MissingHeader", b, <<>>)
    ELSE IF ~b.has_secondary_header /\ ~b.has_user_data
    THEN Outcome("MissingSecondaryHeaderAndUserData", b, <<>>)
    ELSE
    LET pad == add_data_length(b.header[1], 1)
        padded == IF b.data = <<>>
                  THEN [b EXCEPT !.header = <<pad.header>>, !.data = <<0>>]
                  ELSE b
        len == padded.header[1].data_len_bytes
        built == [padded EXCEPT !.header[1].data_len_bytes = (len - 1) % (U16Max + 1)]
    IN IF b.data = <<>> /\ ~pad.ok
       THEN Outcome("ExceedsMaxDataLength", [b EXCEPT !.header = <<pad.header>>], <<>>)
       ELSE IF len = 0 /\ overflow_checks THEN Outcome("panic", Dropped(padded), <<>>)
       ELSE Outcome("Ok", built, <<[header |-> built.header[1], data |-> built.data]>>)

\* a call on the builder is recorded with its result
Called(call, o) ==
    /\ builder' = o.builder
    /\ trace' = Append(trace, [call |-> call, res |-> o.res, packet |-> o.packet])
    /\ UNCHANGED <<ingestVars, jwtVars, egressVars, healthVars, codecVars>>

CanCall == builder.alive /\ Len(trace) < MaxBuilderCalls

WithHeader(header) == CanCall /\ Called("with_header", with_header(builder, header))

WithSecondaryHeader(data) ==
    CanCall /\ Called("with_secondary_header", with_secondary_header(builder, data))

WithUserData(data) == CanCall /\ Called("with_user_data", with_user_data(builder, data))

Build(overflow_checks) == CanCall /\ Called("build", build(builder, overflow_checks))

InitBuilder ==
    /\ now = 0
    /\ cache = EmptyFn
    /\ calls = EmptyFn
    /\ keyTtl = EmptyFn
    /\ IngestIdle
    /\ JwtIdle
    /\ EgressIdle
    /\ HealthIdle
    /\ CodecIdle
    /\ builder = BuilderDefault
    /\ trace = <<>>

NextBuilder ==
    \/ \E header \in BuilderHeaders : WithHeader(header)
    \/ \E data \in BuilderData : WithSecondaryHeader(data)
    \/ \E data \in BuilderData : WithUserData(data)
    \/ \E overflow_checks \in BOOLEAN : Build(overflow_checks)

SpecBuilder == InitBuilder /\ [][NextBuilder]_vars

\* the calls before call k that returned Ok
OkBefore(k) == {j \in 1..(k - 1) : trace[j].res = "Ok"}
OkCalls(k, call) == {j \in OkBefore(k) : trace[j].call = call}
DataCalls(k) == OkCalls(k, "with_secondary_header") \cup OkCalls(k, "with_user_data")

\* call k is the first build that returned a packet
FirstBuild(k) ==
    /\ trace[k].call = "build" /\ trace[k].res = "Ok"
    /\ OkCalls(k, "build") = {}

\* C39: the calls a builder accepts up to its first packet are with_header,
\* then with_secondary_header any number of times, then with_user_data any
\* number of times, with at least one data call, then build; a second
\* with_header fails DuplicatePrimaryHeader, a data call or build before
\* with_header fails MissingHeader, with_secondary_header after with_user_data
\* fails SecondaryHeaderAfterUserData, and build without any data call fails
\* MissingSecondaryHeaderAndUserData
C39_BuilderCallOrder ==
    \A k \in DOMAIN trace :
        /\ FirstBuild(k) =>
              /\ \E h \in OkBefore(k) :
                    /\ OkCalls(k, "with_header") = {h}
                    /\ \A j \in OkBefore(k) : j >= h
              /\ DataCalls(k) # {}
              /\ \A i \in OkCalls(k, "with_user_data") :
                    \A j \in OkCalls(k, "with_secondary_header") : j < i
        /\ (trace[k].call = "with_header" /\ OkCalls(k, "with_header") # {})
              => trace[k].res = "DuplicatePrimaryHeader"
        /\ (trace[k].call # "with_header" /\ OkCalls(k, "with_header") = {})
              => trace[k].res = "MissingHeader"
        /\ (trace[k].call = "with_secondary_header" /\ OkCalls(k, "with_user_data") # {})
              => trace[k].res = "SecondaryHeaderAfterUserData"
        /\ (/\ trace[k].call = "build" /\ OkCalls(k, "with_header") # {}
            /\ DataCalls(k) = {})
              => trace[k].res = "MissingSecondaryHeaderAndUserData"

\* a packet was built after a header, a secondary header and user data
C39_Witness ==
    \E k \in DOMAIN trace :
        /\ FirstBuild(k)
        /\ OkCalls(k, "with_secondary_header") # {}
        /\ OkCalls(k, "with_user_data") # {}

\* C40: every build that succeeds returns a packet with at least one data
\* byte whose data length field is the number of data bytes less one, also
\* when only empty data was given and also on a second build of the builder
C40_DataLengthField ==
    \A k \in DOMAIN trace :
        (trace[k].call = "build" /\ trace[k].res = "Ok") =>
            LET packet == trace[k].packet[1] IN
            /\ Len(packet.data) >= 1
            /\ packet.header.data_len_bytes = Len(packet.data) - 1

-----------------------------------------------------------------------------
(* The batch loop of grpc::Batch as a loop without end, fairly scheduled *)

\* configured values of gis_max_message_size_bytes (a u16): less than one
\* record, one record, two records
MessageSizes == {SizeOfRecord \div 2, SizeOfRecord, 2 * SizeOfRecord}

\* BatchLoop::start: the sleep ends and push() starts with an empty request.
\* The iteration number stops counting at MaxIter; the loop goes on
BatWakeFair ==
    /\ loop_kind = "Batch" /\ bat.pc = "sleep"
    /\ bat' = [bat EXCEPT !.pc = "lock", !.iter = Min(@ + 1, MaxIter), !.drained = 0,
                          !.data = <<>>]
    /\ UNCHANGED <<loop_kind, max_message_size_bytes, ring, ring_lock, prod, gis_client,
                   sent, pushed>>
    /\ UNCHANGED <<ingestVars, jwtVars, healthVars, codecVars, builderVars>>

InitRingFair ==
    /\ now = 0
    /\ cache = EmptyFn
    /\ calls = EmptyFn
    /\ keyTtl = EmptyFn
    /\ IngestIdle
    /\ JwtIdle
    /\ HealthIdle
    /\ CodecIdle
    /\ BuilderIdle
    /\ loop_kind = "Batch"
    /\ max_message_size_bytes \in MessageSizes
    /\ ring = <<>>
    /\ ring_lock = "free"
    /\ prod = [p \in Producers |-> "idle"]
    /\ bat = BatStart
    /\ gis_client = "none"
    /\ sent = <<>>
    /\ pushed = 0

\* a step of the batch loop's task
BatStep ==
    \/ BatWakeFair
    \/ BatTryLock
    \/ BatDrain
    \/ \E ok \in BOOLEAN : BatSend(ok)
    \/ BatInvalidate

NextRingFair ==
    \/ \E p \in Producers : ProducerArrive(p)
    \/ \E p \in Producers : ProducerLock(p)
    \/ \E p \in Producers : ProducerPush(p)
    \/ BatStep

\* the runtime keeps scheduling the loop's task: thread::sleep, try_lock and
\* the drain return, and the client call is assumed to return
SpecRingFair == InitRingFair /\ [][NextRingFair]_vars /\ WF_vars(BatStep)

\* every call made on the client so far has succeeded
AllCallsOk == \A k \in DOMAIN sent : sent[k].ok

\* every record pushed so far has been passed to the client
AllPassed ==
    \A id \in 1..pushed : \E k \in DOMAIN sent : id \in IdsOf(sent[k].batch)

\* C36: when the producers stop pushing and every call on the client
\* succeeds, a fairly scheduled batch loop eventually passes every record of
\* the ring to the client and leaves the ring empty, whatever
\* max_message_size_bytes is configured
C36_RingEventuallyDrained ==
    ([]AllCallsOk /\ <>[](InPush = {})) => <>[](ring = <<>> /\ AllPassed)

====
